---------------------------- MODULE Spec2Model ----------------------------
(***************************************************************************)
(* Verification model of the concurrent external-service orchestration     *)
(* code of the Automation-Script repository: the marker-delimited section  *)
(* patchers, the thread-safe rate limiter, the usage counters, the retry   *)
(* loops and the thread-pool result loops.                                 *)
(*                                                                         *)
(* Text is modelled as a sequence of tokens.  A start or end marker        *)
(* ("<!-- START: A -->", "<!-- END: A -->") is one token: the markers      *)
(* begin with "<" and end with ">", so two occurrences never overlap and   *)
(* literal search for a marker is search for its token.  "x" is a          *)
(* non-blank character, "n" a newline (whitespace for str.strip()).        *)
(* The token alphabet has no backslash: re.sub's template expansion of    *)
(* the replacement is the identity on such text.                           *)
(***************************************************************************)
EXTENDS Integers, Sequences, FiniteSets, TLC

VARIABLES
    \* ---- section patcher (Checker-2.py, CPT-Code-Modification-Shortcode.py,
    \*      CPT-Modification.py)
    host0,      \* the host text the run started from
    content,    \* the host text: full_html_content / the page file's content
    lastOp,     \* the last patch operation: [fn, name, body]
    ret,        \* what the last operation returned to its caller
    \* ---- ThreadSafeRateLimiter (figam.py, Checker-2.py)
    clock,            \* time.time(), in seconds
    last_request_time,\* self.last_request_time
    lock,             \* self.lock: the thread holding it, 0 when free
    lpc,              \* where each thread is in wait_if_needed
    current_time,     \* each thread's local current_time
    wake_at,          \* when each thread's time.sleep() may return
    calls,            \* how many times each thread has passed the gate
    starts,           \* the times at which the gate was passed, in order
    \* ---- usage counters (figam.py TokenUsageTracker, WordPress.py globals)
    script,           \* the script that runs: "figam" or "WordPress"
    amount,           \* what each job adds to the counter
    total_tokens,     \* TokenUsageTracker.total_tokens / total_tokens_used
    tracker_lock,     \* TokenUsageTracker.lock: the worker holding it, 0 when free
    wpc,              \* where each pool worker is
    loaded,           \* the counter value each worker has read for its +=
    pending,          \* jobs submitted and not yet started
    finished,         \* jobs whose worker has returned
    \* ---- retry loops (retry_on_rate_limit, modify_section_with_gemini,
    \*      process_acf_file, generate_code_with_gemini)
    loop,             \* the retry loop that runs
    attempt,          \* the loop variable: range(max_retries)
    tries,            \* calls of the wrapped callable made so far
    sleeps,           \* the delays slept between tries, in order
    last_error,       \* how the last try ended: "ok" or the error's message
    only_throttled,   \* every try so far failed with an error the loop retries
    outcome,          \* "running", or how the call ended
    raised,           \* the error that left the call, "none" when none did
    suggested,        \* suggested[i]: sleeps[i] was read from "retry in N"
    \* ---- worker pools and their result loops (main of each script)
    pool,             \* the script whose pool runs
    job,              \* each submitted job: queued, running, or how it ended
    collected,        \* the jobs whose result the loop has taken and handled
    successful,       \* results the loop counted as successes
    failed,           \* results the loop counted as failures
    drain,            \* the result loop: "looping", "aborted" or "done"
    \* ---- figam.py main: the pages of one run
    IS_COMMAN_HEADER_FOOTER,  \* the first page is processed before the others
    phase,            \* "first", "pool", "fallback" or "done"
    page_state,       \* each page's job in the pool
    attempts,         \* calls of process_single_page made for each page
    failed_pages,     \* pages whose pooled job returned None
    successful_pages, \* pages whose files were saved
    \* ---- extraction of a section from a page (process_project, phase 2)
    extractor,            \* the extract function in use
    scan_page,            \* the text searched
    section_info_list,    \* the sections not yet looked at, in order
    scanned,              \* the extractions made: section name and what came back
    section_refinements,  \* the sections kept for refinement, with their text
    scan,                 \* "scanning", "done"
    \* ---- grouping of the sections (fetch_cpt_sections_from_mongodb)
    gscript,              \* the script that fetches
    pairs,                \* the (page, section name) pairs of the document
    raw_data,             \* what the aggregation pipeline returned
    cpt_data,             \* what fetch_cpt_sections_from_mongodb returned
    first_cpt_data,       \* what it returned in the run before
    run,                  \* 1: first run on the document, 2: the next run
    gstage,               \* "query", "aggregated", "fetched"
    \* ---- external calls and the mutex around them
    api,                  \* the function through which the threads call out
    api_lock,             \* the thread holding the mutex, 0 when it is free
    cpc,                  \* where each thread stands
    \* ---- one thread per page
    cpt_pages,        \* len(cpt_data): the pages handed to the function
    threads,          \* threads[t]: "created", "running" or "ended"
    main_pc,          \* the loop the function is in
    next_thread,      \* the thread the loop is at
    \* ---- the request loops
    request_fn,       \* the function called
    req_attempt,      \* the loop variable attempt
    req_errors,       \* what each failed try raised, in order
    req_sleeps,       \* the sleeps made between tries
    req_outcome,      \* "running", or how the call ended
    \* ---- the cache of shared sections
    has_cache,                \* hasattr(self, "similar_sections_cache")
    similar_sections_cache,   \* section name -> the pages appended so far
    section_pc,               \* where each job of the pool stands
    fill_index,               \* the pair a job building the cache is at
    is_similar,               \* what is_similar_section returned to each job
    \* ---- two limiters
    limiters,         \* each limiter: its last_request_time and its lock
    gate_clock,       \* time.time(), in seconds
    gate_pc,          \* where each thread stands in wait_if_needed
    using,            \* the limiter whose wait_if_needed the thread is in
    gate_wake,        \* when the sleep of each thread ends
    gate_done,        \* the thread has made its call
    \* ---- jobs patching one page file
    file_script,      \* the script whose jobs run
    page_file0,       \* the page file before the jobs
    page_file,        \* the page file on disk
    new_codes,        \* the new code each job has for its section
    file_pc,          \* where each job stands
    old_codes,        \* the section code each job extracted
    read_content,     \* the content each job read before writing
    \* ---- requests behind a limiter
    svc_fn,           \* the function the thread calls
    svc_clock,        \* time.time(), in seconds
    svc_last,         \* last_request_time of the limiter
    svc_attempt,      \* the loop variable attempt
    svc_pc,           \* "idle" between calls, "trying" inside the loop
    request_starts,   \* when each request was sent
    \* ---- the decorated model calls
    deco_fn,          \* the decorated function running, "none" between calls
    deco_attempt,     \* the loop variable of the wrapper
    deco_tries,       \* model calls made so far in this call
    deco_log,         \* how each call ended
    has_docs,              \* hasattr(self, "generated_acf_docs")
    generated_acf_docs,    \* the keys of the sections documented
    doc_pc,                \* position of each job in process_section
    combined_docs,         \* combined documentations saved, per section
    page_docs,             \* documentations saved for one page, per job
    delay_script,          \* the script whose pool runs
    delay_clock,           \* time
    processor_lock,        \* holder of LangChainGeminiProcessor._lock, 0 free
    delay_pc,              \* position of each worker
    delay_wake,            \* end of the sleep of each worker
    call_starts,           \* start times of the model calls, in order
    img_pc,                \* position in download_node_image
    img_attempt,           \* attempt of download_node_image
    api_attempt,           \* attempt of figma_api_get within it
    api_errors,            \* what the requests of figma_api_get raised
    api_requests,          \* requests sent to the Figma API
    img_result,            \* what download_node_image returned
    upd_content,           \* content of the page file
    upd_pc,                \* position in the round of process_similar_section
    upd_section_code,      \* what the extraction returned
    upd_ret,               \* what update_page_file_with_code returned
    upd_content0,          \* content of the page file at the start
    lock_owner,            \* the thread that holds each lock, "free" for none
    lock_op,               \* what each thread is in: log_message, track_tokens
    locks_held,            \* the locks each thread holds, in the order taken
    leaving,               \* the thread has all the locks of its operation
    ops_left               \* operations each thread has yet to make

patchVars == <<host0, content, lastOp, ret>>

limVars == <<clock, last_request_time, lock, lpc, current_time, wake_at,
             calls, starts>>

cntVars == <<script, amount, total_tokens, tracker_lock, wpc, loaded, pending,
             finished>>

retryVars == <<loop, attempt, tries, sleeps, last_error, only_throttled, outcome,
               raised, suggested>>

poolVars == <<pool, job, collected, successful, failed, drain>>

orchVars == <<IS_COMMAN_HEADER_FOOTER, phase, page_state, attempts, failed_pages,
              successful_pages>>

scanVars == <<extractor, scan_page, section_info_list, scanned,
              section_refinements, scan>>

groupVars == <<gscript, pairs, raw_data, cpt_data, first_cpt_data, run, gstage>>

callVars == <<api, api_lock, cpc>>

thrVars == <<cpt_pages, threads, main_pc, next_thread>>

reqVars == <<request_fn, req_attempt, req_errors, req_sleeps, req_outcome>>

cacheVars == <<has_cache, similar_sections_cache, section_pc, fill_index, is_similar>>

twoVars == <<limiters, gate_clock, gate_pc, using, gate_wake, gate_done>>

fileVars == <<file_script, page_file0, page_file, new_codes, file_pc, old_codes, read_content>>

svcVars == <<svc_fn, svc_clock, svc_last, svc_attempt, svc_pc, request_starts>>

decoVars == <<deco_fn, deco_attempt, deco_tries, deco_log>>

docVars == <<has_docs, generated_acf_docs, doc_pc, combined_docs, page_docs>>

delayVars == <<delay_script, delay_clock, processor_lock, delay_pc, delay_wake, call_starts>>

imgVars == <<img_pc, img_attempt, api_attempt, api_errors, api_requests, img_result>>

updVars == <<upd_content, upd_pc, upd_section_code, upd_ret, upd_content0>>

lockVars == <<lock_owner, lock_op, locks_held, leaving, ops_left>>

vars == <<patchVars, limVars, cntVars, retryVars, poolVars, orchVars,
         scanVars, groupVars, callVars, thrVars, reqVars, cacheVars, twoVars,
         fileVars, svcVars, decoVars, docVars, delayVars, imgVars, updVars,
         lockVars>>

\* what a step of one part of the program leaves alone
patchRest == <<limVars, cntVars, retryVars, poolVars, orchVars, scanVars,
                groupVars, callVars, thrVars, reqVars, cacheVars, twoVars,
                fileVars, svcVars, decoVars, docVars, delayVars, imgVars,
                updVars, lockVars>>

limRest == <<patchVars, cntVars, retryVars, poolVars, orchVars, scanVars,
              groupVars, callVars, thrVars, reqVars, cacheVars, twoVars,
              fileVars, svcVars, decoVars, docVars, delayVars, imgVars,
              updVars, lockVars>>

cntRest == <<patchVars, limVars, retryVars, poolVars, orchVars, scanVars,
              groupVars, callVars, thrVars, reqVars, cacheVars, twoVars,
              fileVars, svcVars, decoVars, docVars, delayVars, imgVars,
              updVars, lockVars>>

retryRest == <<patchVars, limVars, cntVars, poolVars, orchVars, scanVars,
                groupVars, callVars, thrVars, reqVars, cacheVars, twoVars,
                fileVars, svcVars, decoVars, docVars, delayVars, imgVars,
                updVars, lockVars>>

poolRest == <<patchVars, limVars, cntVars, retryVars, orchVars, scanVars,
               groupVars, callVars, thrVars, reqVars, cacheVars, twoVars,
               fileVars, svcVars, decoVars, docVars, delayVars, imgVars,
               updVars, lockVars>>

orchRest == <<patchVars, limVars, cntVars, retryVars, poolVars, scanVars,
               groupVars, callVars, thrVars, reqVars, cacheVars, twoVars,
               fileVars, svcVars, decoVars, docVars, delayVars, imgVars,
               updVars, lockVars>>

scanRest == <<patchVars, limVars, cntVars, retryVars, poolVars, orchVars,
               groupVars, callVars, thrVars, reqVars, cacheVars, twoVars,
               fileVars, svcVars, decoVars, docVars, delayVars, imgVars,
               updVars, lockVars>>

groupRest == <<patchVars, limVars, cntVars, retryVars, poolVars, orchVars,
                scanVars, callVars, thrVars, reqVars, cacheVars, twoVars,
                fileVars, svcVars, decoVars, docVars, delayVars, imgVars,
                updVars, lockVars>>

callRest == <<patchVars, limVars, cntVars, retryVars, poolVars, orchVars,
               scanVars, groupVars, thrVars, reqVars, cacheVars, twoVars,
               fileVars, svcVars, decoVars, docVars, delayVars, imgVars,
               updVars, lockVars>>

thrRest == <<patchVars, limVars, cntVars, retryVars, poolVars, orchVars,
              scanVars, groupVars, callVars, reqVars, cacheVars, twoVars,
              fileVars, svcVars, decoVars, docVars, delayVars, imgVars,
              updVars, lockVars>>

reqRest == <<patchVars, limVars, cntVars, retryVars, poolVars, orchVars,
              scanVars, groupVars, callVars, thrVars, cacheVars, twoVars,
              fileVars, svcVars, decoVars, docVars, delayVars, imgVars,
              updVars, lockVars>>

cacheRest == <<patchVars, limVars, cntVars, retryVars, poolVars, orchVars,
                scanVars, groupVars, callVars, thrVars, reqVars, twoVars,
                fileVars, svcVars, decoVars, docVars, delayVars, imgVars,
                updVars, lockVars>>

twoRest == <<patchVars, limVars, cntVars, retryVars, poolVars, orchVars,
              scanVars, groupVars, callVars, thrVars, reqVars, cacheVars,
              fileVars, svcVars, decoVars, docVars, delayVars, imgVars,
              updVars, lockVars>>

fileRest == <<patchVars, limVars, cntVars, retryVars, poolVars, orchVars,
               scanVars, groupVars, callVars, thrVars, reqVars, cacheVars,
               twoVars, svcVars, decoVars, docVars, delayVars, imgVars,
               updVars, lockVars>>

svcRest == <<patchVars, limVars, cntVars, retryVars, poolVars, orchVars,
              scanVars, groupVars, callVars, thrVars, reqVars, cacheVars,
              twoVars, fileVars, decoVars, docVars, delayVars, imgVars,
              updVars, lockVars>>

decoRest == <<patchVars, limVars, cntVars, retryVars, poolVars, orchVars,
               scanVars, groupVars, callVars, thrVars, reqVars, cacheVars,
               twoVars, fileVars, svcVars, docVars, delayVars, imgVars,
               updVars, lockVars>>

docRest == <<patchVars, limVars, cntVars, retryVars, poolVars, orchVars,
              scanVars, groupVars, callVars, thrVars, reqVars, cacheVars,
              twoVars, fileVars, svcVars, decoVars, delayVars, imgVars,
              updVars, lockVars>>

delayRest == <<patchVars, limVars, cntVars, retryVars, poolVars, orchVars,
                scanVars, groupVars, callVars, thrVars, reqVars, cacheVars,
                twoVars, fileVars, svcVars, decoVars, docVars, imgVars,
                updVars, lockVars>>

imgRest == <<patchVars, limVars, cntVars, retryVars, poolVars, orchVars,
              scanVars, groupVars, callVars, thrVars, reqVars, cacheVars,
              twoVars, fileVars, svcVars, decoVars, docVars, delayVars,
              updVars, lockVars>>

updRest == <<patchVars, limVars, cntVars, retryVars, poolVars, orchVars,
              scanVars, groupVars, callVars, thrVars, reqVars, cacheVars,
              twoVars, fileVars, svcVars, decoVars, docVars, delayVars,
              imgVars, lockVars>>

lockRest == <<patchVars, limVars, cntVars, retryVars, poolVars, orchVars,
               scanVars, groupVars, callVars, thrVars, reqVars, cacheVars,
               twoVars, fileVars, svcVars, decoVars, docVars, delayVars,
               imgVars, updVars>>

-----------------------------------------------------------------------------
(* Bounds of the model *)

\* longest host text drawn initially
MaxHostLen == 4
\* longest new body handed to a patch
MaxBodyLen == 1

\* threads sharing one limiter
NumThreads == 3
\* calls of wait_if_needed per thread
MaxCalls == 1
\* the clock stops here
MaxTime == 7
\* workers of the thread pool that add to a counter
NumWorkers == 2
\* jobs submitted to that pool
NumJobs == 3
\* the largest amount a job adds
MaxAmount == 2
\* the longest wait, in seconds, a throttling error's "retry in N" suggests
MaxHint == 2
\* jobs submitted to a pool
NumPoolJobs == 3
\* max_workers of a pool that reads it from the configuration
ConfigWorkers == 2
\* pages (top-level frames) of the design
NumPages == 3
\* pages of the stored document that hold sections
NumGroupPages == 2
\* (page, section) pairs of the stored document
MaxPairs == 3

\* pages of cpt_data in process_acf_files_with_threading
MaxCptData == 11

\* calls of decorated functions a job makes
MaxModelCalls == 2

\* length of a page file handed to process_similar_section
MaxPageLen == 3

\* log_message calls and token accountings a generator thread makes
MaxLockOps == 3

-----------------------------------------------------------------------------
(* Text *)

Names == {"A", "B"}

start_marker(name) == IF name = "A" THEN "SA" ELSE "SB"

end_marker(name) == IF name = "A" THEN "EA" ELSE "EB"

Markers == {"SA", "EA", "SB", "EB"}

\* "x": a character that is no whitespace; "n": a newline; "bn": the two
\* characters backslash and n
Tokens == Markers \cup {"x", "n", "bn"}

\* all sequences over S of length at most k
SeqsUpTo(S, k) == UNION {[1..m -> S] : m \in 0..k}

Hosts == SeqsUpTo(Markers \cup {"x"}, MaxHostLen)

\* a new body: text, a backslash escape, the region's own end marker,
\* another region's start marker (newlines enter a host through the patch
\* itself)
BodyTokens == {"x", "bn", "EA", "SB"}

Bodies == SeqsUpTo(BodyTokens, MaxBodyLen)

\* a patch is not applied when its result would be longer than this: an
\* initial host, a new body and the two newlines a patch puts around it
MaxTextLen == MaxHostLen + MaxBodyLen + 2

\* str.find(tok, from): the first index >= from holding tok, 0 when there is none
\* (Python: -1)
Find(text, tok, from) ==
    LET hits == {i \in from..Len(text) : text[i] = tok}
    IN  IF hits = {} THEN 0 ELSE CHOOSE i \in hits : \A j \in hits : i <= j

\* text[from..] begins with pat
StartsAt(text, pat, from) ==
    /\ from + Len(pat) - 1 <= Len(text)
    /\ \A k \in 1..Len(pat) : text[from + k - 1] = pat[k]

\* pat in text
Contains(text, pat) == \E i \in 1..(Len(text) + 1) : StartsAt(text, pat, i)

\* the whitespace characters str.strip() removes
IsSpace(tok) == tok = "n"

\* str.strip()
Strip(text) ==
    LET keep == {i \in 1..Len(text) : ~IsSpace(text[i])}
    IN  IF keep = {} THEN <<>>
        ELSE LET lo == CHOOSE i \in keep : \A j \in keep : i <= j
                 hi == CHOOSE i \in keep : \A j \in keep : i >= j
             IN  SubSeq(text, lo, hi)

\* extract's "absent" return (Python None): no text equals it
None == <<"None">>

-----------------------------------------------------------------------------
(* Checker-2.py / LangChain-Checker-2.py: regex patcher *)

\* re.compile(START(.*?)END, DOTALL).search(html): the leftmost match, as
\* <<index of the start marker, index of the end marker>>, <<0, 0>> for no match
PatternSearch(text, name, from) ==
    LET s == Find(text, start_marker(name), from)
        e == IF s = 0 THEN 0 ELSE Find(text, end_marker(name), s + 1)
    IN  IF s = 0 \/ e = 0 THEN <<0, 0>> ELSE <<s, e>>

extract_section_html(html_content, section_name) ==
    LET m == PatternSearch(html_content, section_name, 1)
    IN  IF m[1] # 0 THEN Strip(SubSeq(html_content, m[1] + 1, m[2] - 1))
        ELSE None

\* f"{start_comment}\n{new_section_code}\n{end_comment}"
replacement_code(name, new_code) ==
    <<start_marker(name), "n">> \o new_code \o <<"n", end_marker(name)>>

\* a substitution that loses the text after the match
PatternSubLosingTail(text, name, repl) ==
    LET s == Find(text, start_marker(name), 1)
        e == IF s = 0 THEN 0 ELSE Find(text, end_marker(name), s + 1)
    IN  IF s = 0 \/ e = 0 THEN text ELSE SubSeq(text, 1, s - 1) \o repl

\* re's expansion of a replacement template: a backslash escape in it is
\* processed, backslash-n becomes a newline
ExpandTemplate(repl) ==
    [i \in 1..Len(repl) |-> IF repl[i] = "bn" THEN "n" ELSE repl[i]]

\* pattern.sub(repl, text): every non-overlapping leftmost match is replaced
\* by the expanded template
RECURSIVE PatternSub(_, _, _)
PatternSub(text, name, repl) ==
    LET m == PatternSearch(text, name, 1)
    IN  IF m[1] = 0 THEN text
        ELSE SubSeq(text, 1, m[1] - 1) \o ExpandTemplate(repl)
             \o PatternSub(SubSeq(text, m[2] + 1, Len(text)), name, repl)

replace_section_html(full_html, section_name, new_section_code) ==
    IF PatternSearch(full_html, section_name, 1)[1] # 0
    THEN PatternSub(full_html, section_name,
                    replacement_code(section_name, new_section_code))
    ELSE full_html

-----------------------------------------------------------------------------
(* CPT-Code-Modification-Shortcode.py: index patcher on a page file *)

\* f"<?php echo do_shortcode('[{shortcode_slug}]'); ?>"
shortcode_call == <<"x">>

\* the value returned and the file's content afterwards
update_page_file_with_code(file, section_name, new_code, is_shortcode) ==
    LET start_idx == Find(file, start_marker(section_name), 1)
        end_idx == Find(file, end_marker(section_name), 1)
        replacement == IF is_shortcode
                       THEN replacement_code(section_name, shortcode_call)
                       ELSE replacement_code(section_name, new_code)
    IN  IF start_idx # 0 /\ end_idx # 0
        THEN [ret |-> "True",
              file |-> SubSeq(file, 1, start_idx - 1) \o replacement
                        \o SubSeq(file, end_idx + 1, Len(file))]
        ELSE [ret |-> "False", file |-> file]

-----------------------------------------------------------------------------
(* CPT-Modification.py: old-text patcher on a PHP template *)

\* the section with its markers, None when a marker is missing
extract_section_code(file, section_name) ==
    LET m == PatternSearch(file, section_name, 1)
    IN  IF m[1] # 0 THEN SubSeq(file, m[1], m[2]) ELSE None

\* str.replace(old, new): every non-overlapping occurrence, left to right
RECURSIVE StrReplace(_, _, _)
StrReplace(text, old, new) ==
    IF Len(text) = 0 \/ Len(old) = 0 THEN text
    ELSE IF StartsAt(text, old, 1)
         THEN new \o StrReplace(SubSeq(text, Len(old) + 1, Len(text)), old, new)
         ELSE <<text[1]>> \o StrReplace(SubSeq(text, 2, Len(text)), old, new)

replace_section_in_file(file, old_code, new_code) ==
    IF ~Contains(file, old_code)
    THEN [ret |-> "False", file |-> file]
    ELSE [ret |-> "True", file |-> StrReplace(file, old_code, new_code)]

-----------------------------------------------------------------------------
(* The patch operations as steps on one host text.  A run patches one     *)
(* region of the host through one of the patchers, and may patch it again *)
(* (the refinement passes re-apply generated content to the same region). *)

PatchInit ==
    /\ host0 \in Hosts
    /\ content = host0
    /\ lastOp = [fn |-> "none", name |-> "A", body |-> <<>>]
    /\ ret = "init"

\* the first patch of a host is always applied; a later one is applied when
\* its result is no longer than MaxTextLen
Fits(new) == lastOp.fn = "none" \/ Len(new) <= MaxTextLen

\* the operation fn on region name may run now
MayPatch(fn, name) ==
    \/ lastOp.fn = "none"
    \/ lastOp.fn = fn /\ lastOp.name = name

\* Checker-2.py process_project: full_html_content = replace_section_html(...)
ReplaceSectionHtml ==
    \E name \in Names, body \in Bodies :
        LET new == replace_section_html(content, name, body)
        IN  /\ MayPatch("replace_section_html", name)
            /\ Fits(new)
            /\ content' = new
            /\ lastOp' = [fn |-> "replace_section_html", name |-> name, body |-> body]
            /\ ret' = "text"
            /\ UNCHANGED <<host0, patchRest>>

\* CPT-Code-Modification-Shortcode.py: update_page_file_with_code(page_file, ...)
UpdatePageFileWithCode ==
    \E name \in Names, is_shortcode \in BOOLEAN :
      \E body \in (IF is_shortcode THEN {<<>>} ELSE Bodies) :
        LET r == update_page_file_with_code(content, name, body, is_shortcode)
        IN  /\ MayPatch("update_page_file_with_code", name)
            /\ Fits(r.file)
            /\ content' = r.file
            /\ lastOp' = [fn |-> "update_page_file_with_code", name |-> name,
                          body |-> IF is_shortcode THEN shortcode_call ELSE body]
            /\ ret' = r.ret
            /\ UNCHANGED <<host0, patchRest>>

\* CPT-Modification.py process_section: extract, modify with the model, replace.
\* modified_code is the model's answer: any non-empty text.
ProcessSectionReplace ==
    \E name \in Names, modified_code \in Bodies \ {<<>>} :
        LET section_code == extract_section_code(content, name)
            r == replace_section_in_file(content, section_code, modified_code)
        IN  /\ MayPatch("replace_section_in_file", name)
            /\ section_code # None
            /\ Fits(r.file)
            /\ content' = r.file
            /\ lastOp' = [fn |-> "replace_section_in_file", name |-> name,
                          body |-> modified_code]
            /\ ret' = r.ret
            /\ UNCHANGED <<host0, patchRest>>

\* CPT-Modification.py process_section: the markers are missing, return False
ProcessSectionAbsent ==
    \E name \in Names :
        /\ MayPatch("replace_section_in_file", name)
        /\ extract_section_code(content, name) = None
        /\ lastOp' = [fn |-> "replace_section_in_file", name |-> name, body |-> <<>>]
        /\ ret' = "None"
        /\ UNCHANGED <<content, host0, patchRest>>

PatchNext ==
    \/ ReplaceSectionHtml
    \/ UpdatePageFileWithCode
    \/ ProcessSectionReplace
    \/ ProcessSectionAbsent

\* the patchers at rest, while another part of the program runs
PatchOff ==
    /\ host0 = <<>>
    /\ content = <<>>
    /\ lastOp = [fn |-> "none", name |-> "A", body |-> <<>>]
    /\ ret = "init"

-----------------------------------------------------------------------------
(* figam.py / Checker-2.py: ThreadSafeRateLimiter *)

Threads == 1..NumThreads

\* figma_rate_limiter: min_interval = 1.0 / max_requests_per_second = 1 / 0.5
min_interval == 2

\* sleep_time, 0 when wait_if_needed does not sleep
SleepTime(now, last) ==
    IF now - last < min_interval THEN min_interval - (now - last) ELSE 0

\* a stamp taken from the reading made before the sleep
StaleStamp(read, now) == read

\* self.last_request_time = time.time(): the clock is read again
Stamp(read, now) == now

\* last_request_time = 0 and the clock far from the epoch: a first call
\* never sleeps
LimInit ==
    /\ clock = min_interval
    /\ last_request_time = 0
    /\ lock = 0
    /\ lpc = [t \in Threads |-> "idle"]
    /\ current_time = [t \in Threads |-> 0]
    /\ wake_at = [t \in Threads |-> 0]
    /\ calls = [t \in Threads |-> 0]
    /\ starts = <<>>

\* time passes
Tick ==
    /\ clock < MaxTime
    /\ clock' = clock + 1
    /\ UNCHANGED <<last_request_time, lock, lpc, current_time, wake_at, calls, starts, limRest>>

\* with self.lock:
Acquire(t) ==
    /\ lpc[t] = "idle"
    /\ calls[t] < MaxCalls
    /\ lock = 0
    /\ lock' = t
    /\ lpc' = [lpc EXCEPT ![t] = "locked"]
    /\ UNCHANGED <<clock, last_request_time, current_time, wake_at, calls, starts, limRest>>

\* current_time = time.time(); time_since_last = ...; if ...: time.sleep(sleep_time)
ReadClock(t) ==
    /\ lpc[t] = "locked"
    /\ current_time' = [current_time EXCEPT ![t] = clock]
    /\ wake_at' = [wake_at EXCEPT ![t] = clock + SleepTime(clock, last_request_time)]
    /\ lpc' = [lpc EXCEPT ![t] =
                  IF SleepTime(clock, last_request_time) > 0 THEN "sleeping"
                  ELSE "stamping"]
    /\ UNCHANGED <<clock, last_request_time, lock, calls, starts, limRest>>

\* time.sleep() returns, not before the time asked for has passed
Wake(t) ==
    /\ lpc[t] = "sleeping"
    /\ clock >= wake_at[t]
    /\ lpc' = [lpc EXCEPT ![t] = "stamping"]
    /\ UNCHANGED <<clock, last_request_time, lock, current_time, wake_at, calls, starts, limRest>>

\* a gate left with the lock still held
PassGateKeepsLock(t) ==
    /\ lpc[t] = "stamping"
    /\ last_request_time' = Stamp(current_time[t], clock)
    /\ starts' = Append(starts, clock)
    /\ calls' = [calls EXCEPT ![t] = @ + 1]
    /\ lpc' = [lpc EXCEPT ![t] = "idle"]
    /\ UNCHANGED <<clock, lock, current_time, wake_at, limRest>>

\* self.last_request_time = time.time(), the lock is released and the caller
\* goes on to its request
PassGate(t) ==
    /\ lpc[t] = "stamping"
    /\ last_request_time' = Stamp(current_time[t], clock)
    /\ starts' = Append(starts, clock)
    /\ lock' = 0
    /\ calls' = [calls EXCEPT ![t] = @ + 1]
    /\ lpc' = [lpc EXCEPT ![t] = "idle"]
    /\ UNCHANGED <<clock, current_time, wake_at, limRest>>

LimNext ==
    \/ Tick
    \/ \E t \in Threads : Acquire(t)
    \/ \E t \in Threads : ReadClock(t)
    \/ \E t \in Threads : Wake(t)
    \/ \E t \in Threads : PassGate(t)

\* time passes, and does not stop while a thread sleeps
TimePasses ==
    /\ \/ clock < MaxTime
       \/ \E t \in Threads : lpc[t] = "sleeping" /\ clock < wake_at[t]
    /\ clock' = clock + 1
    /\ UNCHANGED <<last_request_time, lock, lpc, current_time, wake_at, calls, starts, limRest>>

LimNextLive ==
    \/ TimePasses
    \/ \E t \in Threads : Acquire(t)
    \/ \E t \in Threads : ReadClock(t)
    \/ \E t \in Threads : Wake(t)
    \/ \E t \in Threads : PassGate(t)

\* the clock runs; a thread that can take a step, takes it in the end.  The
\* lock is not fair: a thread is only sure to get it once it stays free.
LimFair ==
    /\ WF_vars(TimePasses)
    /\ \A t \in Threads :
         /\ WF_vars(Acquire(t))
         /\ WF_vars(ReadClock(t))
         /\ WF_vars(Wake(t))
         /\ WF_vars(PassGate(t))

\* the limiter at rest, while another part of the program runs
LimOff ==
    /\ clock = 0
    /\ last_request_time = 0
    /\ lock = 0
    /\ lpc = <<>>
    /\ current_time = <<>>
    /\ wake_at = <<>>
    /\ calls = <<>>
    /\ starts = <<>>

-----------------------------------------------------------------------------
(* Usage counters: figam.py TokenUsageTracker.add_usage (under self.lock)  *)
(* and WordPress.py call_gemini_api (total_tokens_used += ..., no lock).   *)
(* An augmented assignment to a shared name is a read and a later write.   *)

Workers == 1..NumWorkers

\* add_usage takes self.lock, call_gemini_api takes none
UsesLock(s) == s = "figam"

CntInit ==
    /\ script \in {"figam", "WordPress"}
    /\ amount \in 1..MaxAmount
    /\ total_tokens = 0
    /\ tracker_lock = 0
    /\ wpc = [w \in Workers |-> "idle"]
    /\ loaded = [w \in Workers |-> 0]
    /\ pending = NumJobs
    /\ finished = 0

\* a pool worker takes the next job: the model call, up to the response
StartJob(w) ==
    /\ wpc[w] = "idle"
    /\ pending > 0
    /\ pending' = pending - 1
    /\ wpc' = [wpc EXCEPT ![w] = IF UsesLock(script) THEN "lock" ELSE "load"]
    /\ UNCHANGED <<script, amount, total_tokens, tracker_lock, loaded, finished, cntRest>>

\* with self.lock:
LockTracker(w) ==
    /\ wpc[w] = "lock"
    /\ tracker_lock = 0
    /\ tracker_lock' = w
    /\ wpc' = [wpc EXCEPT ![w] = "load"]
    /\ UNCHANGED <<script, amount, total_tokens, loaded, pending, finished, cntRest>>

\* the read of the counter in "counter += amount"
LoadCounter(w) ==
    /\ wpc[w] = "load"
    /\ loaded' = [loaded EXCEPT ![w] = total_tokens]
    /\ wpc' = [wpc EXCEPT ![w] = "store"]
    /\ UNCHANGED <<script, amount, total_tokens, tracker_lock, pending, finished, cntRest>>

\* the write of the counter in "counter += amount"; the lock, if taken, is
\* released and the job returns
StoreCounter(w) ==
    /\ wpc[w] = "store"
    /\ total_tokens' = loaded[w] + amount
    /\ tracker_lock' = IF tracker_lock = w THEN 0 ELSE tracker_lock
    /\ wpc' = [wpc EXCEPT ![w] = "idle"]
    /\ finished' = finished + 1
    /\ UNCHANGED <<script, amount, loaded, pending, cntRest>>

CntNext ==
    \/ \E w \in Workers : StartJob(w)
    \/ \E w \in Workers : LockTracker(w)
    \/ \E w \in Workers : LoadCounter(w)
    \/ \E w \in Workers : StoreCounter(w)

\* the counters at rest, while another part of the program runs
CntOff ==
    /\ script = "none"
    /\ amount = 0
    /\ total_tokens = 0
    /\ tracker_lock = 0
    /\ wpc = <<>>
    /\ loaded = <<>>
    /\ pending = 0
    /\ finished = 0

-----------------------------------------------------------------------------
(* Retry loops around a model call:                                        *)
(*   CPT-Code-Modification-Shortcode.py  retry_on_rate_limit               *)
(*   CPT-Modification.py                 modify_section_with_gemini        *)
(*   ACF_Generator.py                    process_acf_file                  *)
(*   figam.py                            generate_code_with_gemini         *)
(* An error is its message: one holding "429", one holding "quota", one    *)
(* holding "rate limit", and one holding none of them ("other": a timeout, *)
(* a server error), with or without a "retry in N" the server suggests.    *)

Loops == {"retry_on_rate_limit", "modify_section_with_gemini", "process_acf_file",
          "generate_code_with_gemini"}

Errors == {"429", "quota", "rate limit", "other"}

\* 0: the message holds no "retry in N"
Hints == 0..MaxHint

\* MAX_RETRIES of retry_on_rate_limit, max_retries of generate_code_with_gemini
MAX_RETRIES == 3

\* max_retries of modify_section_with_gemini and of process_acf_file
max_retries == 5

INITIAL_RETRY_DELAY == 35

\* "+ 2": the buffer added to the wait the server suggests
retry_buffer == 2

\* modify_section_with_gemini: retry_delay = 60 without a suggestion
default_retry_delay == 60

\* process_acf_file: retry_delay = 15, doubled after each sleep
first_retry_delay == 15

max_attempts(l) ==
    IF l \in {"retry_on_rate_limit", "generate_code_with_gemini"} THEN MAX_RETRIES
    ELSE max_retries

RECURSIVE Pow2(_)
Pow2(k) == IF k = 0 THEN 1 ELSE 2 * Pow2(k - 1)

\* a loop that takes every error for a throttling error
RetriesAll(l, err) == TRUE

\* the error makes the loop l go round again (if tries are left)
Retries(l, err) ==
    CASE l = "retry_on_rate_limit" -> err \in {"429", "quota", "rate limit"}
      [] l \in {"modify_section_with_gemini", "process_acf_file"} ->
            err \in {"429", "quota"}
      [] OTHER -> TRUE

\* a loop that goes round once more than its bound
OneMoreAttempt(l, a) == a = max_attempts(l)

\* a is the last round of range(max_attempts): no sleep follows it
IsLastAttempt(l, a) == a = max_attempts(l) - 1

\* the loop searches the message for "retry in N" and has found it
UsesSuggestion(l, hint) ==
    l \in {"retry_on_rate_limit", "modify_section_with_gemini"} /\ hint > 0

\* a backoff that shrinks from one round to the next
ShrinkingDelay(l, a, hint) ==
    IF UsesSuggestion(l, hint) THEN hint + retry_buffer
    ELSE default_retry_delay \div Pow2(a)

\* the sleep before the next try; a is the loop variable
Delay(l, a, hint) ==
    CASE l = "retry_on_rate_limit" ->
            IF hint > 0 THEN hint + retry_buffer ELSE INITIAL_RETRY_DELAY * (a + 1)
      [] l = "modify_section_with_gemini" ->
            IF hint > 0 THEN hint + retry_buffer ELSE default_retry_delay
      [] l = "process_acf_file" -> first_retry_delay * Pow2(a)
      [] OTHER -> Pow2(a)

\* a loop that raises an error of its own in place of the one caught
GenericError(err) == "RetryError"

\* a bare `raise` in the except branch: the error caught leaves the call
Reraised(err) == err

\* how the call ends when the loop gives up on an error
GiveUp(l) == IF l = "retry_on_rate_limit" THEN "raised" ELSE "None"

RetryInit ==
    /\ loop \in Loops
    /\ attempt = 0
    /\ tries = 0
    /\ sleeps = <<>>
    /\ last_error = "none"
    /\ only_throttled = TRUE
    /\ outcome = "running"
    /\ raised = "none"
    /\ suggested = <<>>

\* the callable returns: the loop returns its value
TrySucceeds ==
    /\ outcome = "running"
    /\ tries' = tries + 1
    /\ last_error' = "ok"
    /\ only_throttled' = FALSE
    /\ outcome' = "value"
    /\ UNCHANGED <<loop, attempt, sleeps, raised, suggested, retryRest>>

\* the callable raises err: the except branch of the loop
TryFails ==
    \E err \in Errors, hint \in Hints :
        /\ outcome = "running"
        /\ tries' = tries + 1
        /\ last_error' = err
        /\ only_throttled' = (only_throttled /\ Retries(loop, err))
        /\ IF Retries(loop, err) /\ ~IsLastAttempt(loop, attempt)
           THEN /\ sleeps' = Append(sleeps, Delay(loop, attempt, hint))
                /\ suggested' = Append(suggested, UsesSuggestion(loop, hint))
                /\ attempt' = attempt + 1
                /\ UNCHANGED <<outcome, raised>>
           ELSE /\ outcome' = GiveUp(loop)
                /\ raised' = IF GiveUp(loop) = "raised" THEN Reraised(err) ELSE "none"
                /\ UNCHANGED <<sleeps, suggested, attempt>>
        /\ UNCHANGED <<loop, retryRest>>

RetryNext ==
    \/ TrySucceeds
    \/ TryFails

\* the retry loops at rest, while another part of the program runs
RetryOff ==
    /\ loop = "none"
    /\ attempt = 0
    /\ tries = 0
    /\ sleeps = <<>>
    /\ last_error = "none"
    /\ only_throttled = TRUE
    /\ outcome = "off"
    /\ raised = "none"
    /\ suggested = <<>>

-----------------------------------------------------------------------------
(* Worker pools: main of each script submits every job to a               *)
(* ThreadPoolExecutor and loops over as_completed(futures).               *)

Pools == {"WordPress", "CPT-Modification", "ACF_Generator", "CPT-ACF-Creation",
          "CPT-Code-Modification-Shortcode"}

PoolJobs == 1..NumPoolJobs

max_workers(p) ==
    CASE p = "WordPress" -> ConfigWorkers
      [] p = "ACF_Generator" -> 8
      [] OTHER -> 3

\* the loop calls future.result() inside try/except Exception
Guards(p) == p \in {"WordPress", "CPT-Modification"}

\* how a job can end: a value, None, or an exception that leaves the job
\* function (process_html_file catches every exception itself)
Results(p) == IF p = "WordPress" THEN {"ok", "None"} ELSE {"ok", "None", "raised"}

Running == {j \in PoolJobs : job[j] = "running"}

PoolInit ==
    /\ pool \in Pools
    /\ job = [j \in PoolJobs |-> "queued"]
    /\ collected = {}
    /\ successful = 0
    /\ failed = 0
    /\ drain = "looping"

\* a free worker thread takes a queued job
WorkerTakes(j) ==
    /\ job[j] = "queued"
    /\ Cardinality(Running) < max_workers(pool)
    /\ job' = [job EXCEPT ![j] = "running"]
    /\ UNCHANGED <<pool, collected, successful, failed, drain, poolRest>>

\* the job function returns or raises; the future holds the result
JobEnds(j) ==
    \E r \in Results(pool) :
        /\ job[j] = "running"
        /\ job' = [job EXCEPT ![j] = r]
        /\ UNCHANGED <<pool, collected, successful, failed, drain, poolRest>>

\* one round of `for future in as_completed(futures)`: future.result() and
\* the loop body
Collect(j) ==
    /\ drain = "looping"
    /\ j \notin collected
    /\ job[j] \in {"ok", "None", "raised"}
    /\ IF job[j] = "raised" /\ ~Guards(pool)
       THEN \* the exception leaves the loop
            /\ drain' = "aborted"
            /\ UNCHANGED <<collected, successful, failed>>
       ELSE /\ collected' = collected \cup {j}
            /\ successful' = IF job[j] = "ok" THEN successful + 1 ELSE successful
            /\ failed' = IF job[j] # "ok" THEN failed + 1 ELSE failed
            /\ UNCHANGED drain
    /\ UNCHANGED <<pool, job, poolRest>>

\* as_completed has yielded every future
LoopEnds ==
    /\ drain = "looping"
    /\ collected = PoolJobs
    /\ drain' = "done"
    /\ UNCHANGED <<pool, job, collected, successful, failed, poolRest>>

PoolNext ==
    \/ \E j \in PoolJobs : WorkerTakes(j)
    \/ \E j \in PoolJobs : JobEnds(j)
    \/ \E j \in PoolJobs : Collect(j)
    \/ LoopEnds

PoolOff ==
    /\ pool = "none"
    /\ job = <<>>
    /\ collected = {}
    /\ successful = 0
    /\ failed = 0
    /\ drain = "off"

-----------------------------------------------------------------------------
(* figam.py main: the pages of one run.  process_single_page catches       *)
(* every exception and returns None for a page that failed.                *)

Pages == 1..NumPages

\* the pages main hands to the pool
Pooled == IF IS_COMMAN_HEADER_FOOTER THEN Pages \ {1} ELSE Pages

\* `if first_page_result:` the rest of the branch runs
FirstPageOk(r) == r = "ok"

OrchInit ==
    /\ IS_COMMAN_HEADER_FOOTER \in BOOLEAN
    /\ phase = IF IS_COMMAN_HEADER_FOOTER THEN "first" ELSE "pool"
    /\ page_state = [p \in Pages |-> "queued"]
    /\ attempts = [p \in Pages |-> 0]
    /\ failed_pages = {}
    /\ successful_pages = 0

\* first_page_result = process_single_page(page_data_list[0])
FirstPage ==
    \E r \in {"ok", "None"} :
        /\ phase = "first"
        /\ attempts' = [attempts EXCEPT ![1] = @ + 1]
        /\ page_state' = [page_state EXCEPT ![1] = r]
        /\ phase' = IF FirstPageOk(r) /\ NumPages > 1 THEN "pool" ELSE "done"
        /\ UNCHANGED <<IS_COMMAN_HEADER_FOOTER, failed_pages, successful_pages, orchRest>>

\* a pool thread starts process_single_page for a page
PageStarts(p) ==
    /\ phase = "pool"
    /\ p \in Pooled
    /\ page_state[p] = "queued"
    /\ page_state' = [page_state EXCEPT ![p] = "running"]
    /\ attempts' = [attempts EXCEPT ![p] = @ + 1]
    /\ UNCHANGED <<IS_COMMAN_HEADER_FOOTER, phase, failed_pages, successful_pages, orchRest>>

\* the page's job ends and the result loop handles its result
PageEnds(p) ==
    \E r \in {"ok", "None"} :
        /\ phase = "pool"
        /\ page_state[p] = "running"
        /\ page_state' = [page_state EXCEPT ![p] = r]
        /\ IF r = "ok"
           THEN successful_pages' = successful_pages + 1 /\ UNCHANGED failed_pages
           ELSE failed_pages' = failed_pages \cup {p} /\ UNCHANGED successful_pages
        /\ UNCHANGED <<IS_COMMAN_HEADER_FOOTER, phase, attempts, orchRest>>

\* a pool left without waiting for its jobs, as shutdown(wait=False) would
ShutsDownAtOnce ==
    /\ phase = "pool"
    /\ phase' = IF failed_pages # {} THEN "fallback" ELSE "done"
    /\ UNCHANGED <<IS_COMMAN_HEADER_FOOTER, page_state, attempts, failed_pages,
                   successful_pages, orchRest>>

\* the pool has shut down; `if failed_pages:`
PoolShutsDown ==
    /\ phase = "pool"
    /\ \A p \in Pooled : page_state[p] \in {"ok", "None"}
    /\ phase' = IF failed_pages # {} THEN "fallback" ELSE "done"
    /\ UNCHANGED <<IS_COMMAN_HEADER_FOOTER, page_state, attempts, failed_pages,
                   successful_pages, orchRest>>

\* a fallback that takes a page of the list again
FallbackAgain(p) ==
    \E r \in {"ok", "None"} :
        /\ phase = "fallback"
        /\ p \in failed_pages
        /\ attempts[p] \in {1, 2}
        /\ attempts' = [attempts EXCEPT ![p] = @ + 1]
        /\ page_state' = [page_state EXCEPT ![p] = r]
        /\ successful_pages' = IF r = "ok" THEN successful_pages + 1 ELSE successful_pages
        /\ UNCHANGED <<IS_COMMAN_HEADER_FOOTER, phase, failed_pages, orchRest>>

\* the sequential fallback: process_single_page once more for a failed page
Fallback(p) ==
    \E r \in {"ok", "None"} :
        /\ phase = "fallback"
        /\ p \in failed_pages
        /\ attempts[p] = 1
        /\ attempts' = [attempts EXCEPT ![p] = @ + 1]
        /\ page_state' = [page_state EXCEPT ![p] = r]
        /\ successful_pages' = IF r = "ok" THEN successful_pages + 1 ELSE successful_pages
        /\ UNCHANGED <<IS_COMMAN_HEADER_FOOTER, phase, failed_pages, orchRest>>

FallbackEnds ==
    /\ phase = "fallback"
    /\ \A p \in failed_pages : attempts[p] = 2
    /\ phase' = "done"
    /\ UNCHANGED <<IS_COMMAN_HEADER_FOOTER, page_state, attempts, failed_pages,
                   successful_pages, orchRest>>

OrchNext ==
    \/ FirstPage
    \/ \E p \in Pages : PageStarts(p)
    \/ \E p \in Pages : PageEnds(p)
    \/ PoolShutsDown
    \/ \E p \in Pages : Fallback(p)
    \/ FallbackEnds

OrchOff ==
    /\ IS_COMMAN_HEADER_FOOTER = FALSE
    /\ phase = "off"
    /\ page_state = <<>>
    /\ attempts = <<>>
    /\ failed_pages = {}
    /\ successful_pages = 0

-----------------------------------------------------------------------------
(* Extraction of a section:                                                *)
(*   Checker-2.py / LangChain-Checker-2.py  extract_section_html, called   *)
(*       for each section of a page by process_project                     *)
(*   CPT-Modification.py                    extract_section_code           *)
(*   CPT-Code-Modification-Shortcode.py     extract_section_code_from_page *)

\* the three spellings of a marker pair the extraction tries in turn:
\* "<!-- START: name -->", "<!-- START:name -->" and "<!--START: name-->",
\* each a token of its own
marker_patterns(section_name) ==
    IF section_name = "A"
    THEN << <<"SA", "EA">>, <<"SA2", "EA2">>, <<"SA3", "EA3">> >>
    ELSE << <<"SB", "EB">>, <<"SB2", "EB2">>, <<"SB3", "EB3">> >>

\* the first spelling whose two markers are both in the file, 0 for none
FirstPattern(file, section_name) ==
    LET found == {k \in 1..Len(marker_patterns(section_name)) :
                    /\ Find(file, marker_patterns(section_name)[k][1], 1) # 0
                    /\ Find(file, marker_patterns(section_name)[k][2], 1) # 0}
    IN  IF found = {} THEN 0
        ELSE CHOOSE k \in found : \A m \in found : k <= m

\* content[start_idx + len(start_marker):end_idx].strip(), both markers
\* looked up from the start of the file
extract_section_code_from_page(file, section_name) ==
    LET k == FirstPattern(file, section_name)
        start_idx == Find(file, marker_patterns(section_name)[k][1], 1)
        end_idx == Find(file, marker_patterns(section_name)[k][2], 1)
    IN  IF k # 0
        THEN Strip(SubSeq(file, start_idx + 1, end_idx - 1))
        ELSE None

Extractors == {"extract_section_html", "extract_section_code",
               "extract_section_code_from_page"}

Extracted(fn, text, name) ==
    CASE fn = "extract_section_html" -> extract_section_html(text, name)
      [] fn = "extract_section_code" -> extract_section_code(text, name)
      [] OTHER -> extract_section_code_from_page(text, name)

\* the pages searched: text, newlines and markers
ScanPages == SeqsUpTo(Markers \cup {"x", "n"}, MaxHostLen)

\* the sections of a page, each once, in any order
NameLists == {l \in SeqsUpTo(Names, Cardinality(Names)) :
                \A i, j \in 1..Len(l) : i # j => l[i] # l[j]}

\* a caller that takes whatever extract returned
NeverFalsy(v) == FALSE

\* `not current_section_html`: None or the empty string
Falsy(v) == v = None \/ v = <<>>

ScanInit ==
    /\ extractor \in Extractors
    /\ scan_page \in ScanPages
    /\ section_info_list \in
         IF extractor = "extract_section_html" THEN NameLists
         ELSE {l \in NameLists : Len(l) = 1}
    /\ scanned = <<>>
    /\ section_refinements = <<>>
    /\ scan = "scanning"

\* one round of `for section_info in section_info_list`: extract, and
\* `continue` when nothing came back
ExtractSection ==
    /\ scan = "scanning"
    /\ section_info_list # <<>>
    /\ LET name == Head(section_info_list)
           html == Extracted(extractor, scan_page, name)
       IN  /\ scanned' = Append(scanned, [name |-> name, html |-> html])
           /\ section_refinements' =
                IF Falsy(html) THEN section_refinements
                ELSE Append(section_refinements, [name |-> name, html |-> html])
    /\ section_info_list' = Tail(section_info_list)
    /\ UNCHANGED <<extractor, scan_page, scan, scanRest>>

ScanEnds ==
    /\ scan = "scanning"
    /\ section_info_list = <<>>
    /\ scan' = "done"
    /\ UNCHANGED <<extractor, scan_page, section_info_list, scanned,
                   section_refinements, scanRest>>

ScanNext ==
    \/ ExtractSection
    \/ ScanEnds

ScanOff ==
    /\ extractor = "none"
    /\ scan_page = <<>>
    /\ section_info_list = <<>>
    /\ scanned = <<>>
    /\ section_refinements = <<>>
    /\ scan = "off"

-----------------------------------------------------------------------------
(* Grouping of the sections of the stored document into those on several   *)
(* pages (similarSections) and those on one page (uniqueSections):         *)
(*   fetch_cpt_sections_from_mongodb of CPT-Code-Modification-Shortcode.py,*)
(*   CPT-ACF-Creation.py and CPT-Modification.py.                          *)
(* A page is a number; the order of the numbers is the order of the page   *)
(* names ($sort by page).                                                  *)

GroupScripts == {"CPT-Code-Modification-Shortcode", "CPT-ACF-Creation",
                 "CPT-Modification"}

GroupPages == 1..NumGroupPages

\* section names as stored: two that differ only by a prefix that
\* clean_section_name removes, one that the blog filter matches
RawNames == {"Hero", "# Hero", "CTA", "Blog"}

clean_section_name(name) == IF name = "# Hero" THEN "Hero" ELSE name

\* excluded_keywords of CPT-Code-Modification-Shortcode.py; the other two
\* scripts exclude nothing here
should_exclude_section(s, name) ==
    s = "CPT-Code-Modification-Shortcode" /\ name = "Blog"

\* {"$match": {"pages.sections.name": {"$not": {"$regex": "blog"}}}}
BlogMatch(s, name) ==
    s \in {"CPT-ACF-Creation", "CPT-Modification"} /\ name = "Blog"

\* the documents that reach $group
Matched(s, ps) == {pr \in ps : ~BlogMatch(s, pr[2])}

\* {"$group": {"_id": name, "pages": {"$addToSet": page}}}
GroupIds(ps) == {pr[2] : pr \in ps}

PagesOf(ps, name) == {pr[1] : pr \in {q \in ps : q[2] = name}}

\* a facet that takes a section for similar from three pages on
MoreThanTwo(size) == size > 2

\* {"$gt": [{"$size": "$pages"}, 1]}
IsSimilar(size) == size > 1

SimilarIds(ps) == {n \in GroupIds(ps) : IsSimilar(Cardinality(PagesOf(ps, n)))}

\* {"$eq": [{"$size": "$pages"}, 1]}
UniqueIds(ps) == {n \in GroupIds(ps) : Cardinality(PagesOf(ps, n)) = 1}

\* the second $group: the unique sections of page p
UniqueNamesOf(ps, p) == {n \in UniqueIds(ps) : PagesOf(ps, n) = {p}}

UniquePages(ps) == {p \in GroupPages : UniqueNamesOf(ps, p) # {}}

\* the arrays an $addToSet or a $group without $sort can return for the set
\* S: its elements in any order
Orders(S) ==
    {f \in [1..Cardinality(S) -> S] : \A i, j \in 1..Cardinality(S) : i # j => f[i] # f[j]}

\* {"$sort": {"page": 1}}
SortedSeq(S) ==
    CHOOSE f \in Orders(S) : \A i, j \in 1..Cardinality(S) : i < j => f[i] < f[j]

\* the similarSections facet for the sections so, in that order
RECURSIVE SimilarEntries(_, _)
SimilarEntries(ps, so) ==
    IF so = <<>> THEN {<<>>}
    ELSE {<<[sectionName |-> Head(so), pages |-> o]>> \o rest :
            o \in Orders(PagesOf(ps, Head(so))),
            rest \in SimilarEntries(ps, Tail(so))}

\* the uniqueSections facet for the pages po, in that order
RECURSIVE UniqueEntries(_, _)
UniqueEntries(ps, po) ==
    IF po = <<>> THEN {<<>>}
    ELSE {<<[page |-> Head(po), sectionNames |-> o]>> \o rest :
            o \in Orders(UniqueNamesOf(ps, Head(po))),
            rest \in UniqueEntries(ps, Tail(po))}

\* every result collection.aggregate(pipeline) can return for the pairs ps
PipelineResults(ps) ==
    {[similarSections |-> sim, uniqueSections |-> uni] :
        sim \in UNION {SimilarEntries(ps, so) : so \in Orders(SimilarIds(ps))},
        uni \in UniqueEntries(ps, SortedSeq(UniquePages(ps)))}

\* filtered_similar
FilteredSimilar(s, sim) ==
    LET cleaned == [i \in 1..Len(sim) |->
                      [sectionName |-> clean_section_name(sim[i].sectionName),
                       pages |-> sim[i].pages]]
    IN  SelectSeq(cleaned, LAMBDA e : ~should_exclude_section(s, e.sectionName))

\* cleaned_names of one page
CleanedNames(s, names) ==
    SelectSeq([i \in 1..Len(names) |-> clean_section_name(names[i])],
              LAMBDA n : ~should_exclude_section(s, n))

\* filtered_unique
FilteredUnique(s, uni) ==
    LET cleaned == [i \in 1..Len(uni) |->
                      [page |-> uni[i].page,
                       sectionNames |-> CleanedNames(s, uni[i].sectionNames)]]
    IN  SelectSeq(cleaned, LAMBDA e : e.sectionNames # <<>>)

NoData == [similarSections |-> <<>>, uniqueSections |-> <<>>]

Documents ==
    {ps \in SUBSET (GroupPages \X RawNames) : Cardinality(ps) <= MaxPairs}

GroupInit ==
    /\ gscript \in GroupScripts
    /\ pairs \in Documents
    /\ raw_data = NoData
    /\ cpt_data = NoData
    /\ first_cpt_data = NoData
    /\ run = 1
    /\ gstage = "query"

\* result = list(collection.aggregate(pipeline)); cpt_data = result[0]
Aggregate ==
    /\ gstage = "query"
    /\ raw_data' \in PipelineResults(Matched(gscript, pairs))
    /\ gstage' = "aggregated"
    /\ UNCHANGED <<gscript, pairs, cpt_data, first_cpt_data, run, groupRest>>

\* the names are cleaned and the excluded sections dropped
CleanAndFilter ==
    /\ gstage = "aggregated"
    /\ cpt_data' = [similarSections |-> FilteredSimilar(gscript, raw_data.similarSections),
                    uniqueSections |-> FilteredUnique(gscript, raw_data.uniqueSections)]
    /\ gstage' = "fetched"
    /\ UNCHANGED <<gscript, pairs, raw_data, first_cpt_data, run, groupRest>>

\* the script is run once more on the same document
FetchAgain ==
    /\ gstage = "fetched"
    /\ run = 1
    /\ first_cpt_data' = cpt_data
    /\ run' = 2
    /\ gstage' = "query"
    /\ UNCHANGED <<gscript, pairs, raw_data, cpt_data, groupRest>>

GroupNext ==
    \/ Aggregate
    \/ CleanAndFilter
    \/ FetchAgain

GroupOff ==
    /\ gscript = "none"
    /\ pairs = {}
    /\ raw_data = <<>>
    /\ cpt_data = <<>>
    /\ first_cpt_data = <<>>
    /\ run = 0
    /\ gstage = "off"

-----------------------------------------------------------------------------
(* External calls made by the threads of a pool, and the mutex around them: *)
(*   figam.py                figma_api_get: figma_rate_limiter            *)
(*       .wait_if_needed() (the limiter's lock), then requests.get        *)
(*   LangChain-Checker-2.py  FigmaAPI.get_node_image_url: requests.get    *)
(*       inside `with self._lock`                                         *)
(*   LangChain-Checker-2.py  LangChainGeminiProcessor.process_with_image: *)
(*       self.llm.invoke inside `with self._lock`                         *)

Apis == {"figma_api_get", "get_node_image_url", "process_with_image"}

\* the external call is made inside the `with lock` block
CallsInsideLock(a) == a \in {"get_node_image_url", "process_with_image"}

CallInit ==
    /\ api \in Apis
    /\ api_lock = 0
    /\ cpc = [t \in Threads |-> "start"]

\* `with self.lock:` / `with self._lock:` the thread acquires the mutex
EnterLock(t) ==
    /\ cpc[t] = "start"
    /\ api_lock = 0
    /\ api_lock' = t
    /\ cpc' = [cpc EXCEPT ![t] = "critical"]
    /\ UNCHANGED <<api, callRest>>

\* requests.get(...) / self.llm.invoke(...) begins
BeginCall(t) ==
    /\ cpc[t] = IF CallsInsideLock(api) THEN "critical" ELSE "released"
    /\ cpc' = [cpc EXCEPT ![t] = "calling"]
    /\ UNCHANGED <<api, api_lock, callRest>>

\* the external call returns
EndCall(t) ==
    /\ cpc[t] = "calling"
    /\ cpc' = [cpc EXCEPT ![t] = IF CallsInsideLock(api) THEN "returned" ELSE "done"]
    /\ UNCHANGED <<api, api_lock, callRest>>

\* the thread leaves the `with` block and releases the mutex
LeaveLock(t) ==
    /\ cpc[t] = IF CallsInsideLock(api) THEN "returned" ELSE "critical"
    /\ api_lock = t
    /\ api_lock' = 0
    /\ cpc' = [cpc EXCEPT ![t] = IF CallsInsideLock(api) THEN "done" ELSE "released"]
    /\ UNCHANGED <<api, callRest>>

CallNext ==
    \/ \E t \in Threads : EnterLock(t)
    \/ \E t \in Threads : BeginCall(t)
    \/ \E t \in Threads : EndCall(t)
    \/ \E t \in Threads : LeaveLock(t)

CallOff ==
    /\ api = "none"
    /\ api_lock = 0
    /\ cpc = <<>>

-----------------------------------------------------------------------------
(* One thread per page: process_acf_files_with_threading of
   Remove-Repeater-for-CPT.py creates a thread for every page of cpt_data,
   starts them all and joins them all. *)

\* min(len(cpt_data), 10), the limit the function computes
max_threads(n) == IF n < 10 THEN n ELSE 10

ThreadIds == 1..cpt_pages

RunningThreads == {t \in ThreadIds : threads[t] = "running"}

\* the function is called with cpt_pages pages of cpt_data; the first loop
\* has created a thread for each
ThrInit ==
    /\ cpt_pages \in 1..MaxCptData
    /\ threads = [t \in 1..cpt_pages |-> "created"]
    /\ main_pc = "start"
    /\ next_thread = 1

\* for thread in threads: thread.start()
StartThread ==
    /\ main_pc = "start"
    /\ threads' = [threads EXCEPT ![next_thread] = "running"]
    /\ IF next_thread = cpt_pages
       THEN main_pc' = "join" /\ next_thread' = 1
       ELSE next_thread' = next_thread + 1 /\ UNCHANGED main_pc
    /\ UNCHANGED <<cpt_pages, thrRest>>

\* process_page_thread returns (or raises): the thread is over
ThreadEnds(t) ==
    /\ threads[t] = "running"
    /\ threads' = [threads EXCEPT ![t] = "ended"]
    /\ UNCHANGED <<cpt_pages, main_pc, next_thread, thrRest>>

\* for thread in threads: thread.join() returns once the thread is over
JoinThread ==
    /\ main_pc = "join"
    /\ threads[next_thread] = "ended"
    /\ IF next_thread = cpt_pages
       THEN main_pc' = "returned" /\ UNCHANGED next_thread
       ELSE next_thread' = next_thread + 1 /\ UNCHANGED main_pc
    /\ UNCHANGED <<cpt_pages, threads, thrRest>>

ThrNext ==
    \/ StartThread
    \/ \E t \in ThreadIds : ThreadEnds(t)
    \/ JoinThread

ThrOff ==
    /\ cpt_pages = 0
    /\ threads = <<>>
    /\ main_pc = "off"
    /\ next_thread = 0

-----------------------------------------------------------------------------
(* The request loops: figma_api_get of figam.py and download_single_image
   of CPT-Data-Entry.py try a requests.get up to three times. *)

RequestFns == {"figma_api_get", "download_single_image"}

\* what a try can raise: three subclasses of
\* requests.exceptions.RequestException, and an exception that is none
RequestExceptions == {"Timeout", "ConnectionError", "HTTPError"}

Raisable == RequestExceptions \cup {"OSError"}

\* max_retries = 3 in both functions
request_max_retries == 3

\* a handler that lets a timeout pass
CaughtButTimeout(e) == e \in RequestExceptions \ {"Timeout"}

\* except requests.exceptions.RequestException as e
Caught(e) == e \in RequestExceptions

\* how the function ends at the last attempt: figma_api_get raises,
\* download_single_image returns None
RequestGiveUp(fn) == IF fn = "figma_api_get" THEN "raised" ELSE "None"

ReqInit ==
    /\ request_fn \in RequestFns
    /\ req_attempt = 0
    /\ req_errors = <<>>
    /\ req_sleeps = <<>>
    /\ req_outcome = "running"

\* requests.get answers in time and raise_for_status passes
RequestSucceeds ==
    /\ req_outcome = "running"
    /\ req_outcome' = "value"
    /\ UNCHANGED <<request_fn, req_attempt, req_errors, req_sleeps, reqRest>>

\* the try raises e
RequestFails ==
    \E e \in Raisable :
        /\ req_outcome = "running"
        /\ req_errors' = Append(req_errors, e)
        /\ IF ~Caught(e)
           THEN /\ req_outcome' = "raised"
                /\ UNCHANGED <<req_attempt, req_sleeps>>
           ELSE IF req_attempt < request_max_retries - 1
           THEN /\ req_sleeps' = Append(req_sleeps, Pow2(req_attempt))
                /\ req_attempt' = req_attempt + 1
                /\ UNCHANGED req_outcome
           ELSE /\ req_outcome' = RequestGiveUp(request_fn)
                /\ UNCHANGED <<req_attempt, req_sleeps>>
        /\ UNCHANGED <<request_fn, reqRest>>

ReqNext ==
    \/ RequestSucceeds
    \/ RequestFails

ReqOff ==
    /\ request_fn = "none"
    /\ req_attempt = 0
    /\ req_errors = <<>>
    /\ req_sleeps = <<>>
    /\ req_outcome = "off"

-----------------------------------------------------------------------------
(* The cache of shared sections: CPTModifier.is_similar_section of
   CPT-Modification.py, called by process_section in the pool's threads. *)

\* cpt_sections_data: "Hero" stands on both pages, "CTA" on the second only
cpt_sections_data ==
    << [page_name |-> 1, sections |-> <<"Hero">>],
       [page_name |-> 2, sections |-> <<"Hero", "CTA">>] >>

CacheSections == {"Hero", "CTA"}

\* the (page, section) pairs in the order of the two nested loops, which is
\* also the list of tasks process_all_sections_multithreaded submits
tasks ==
    << [page_name |-> 1, section |-> "Hero"],
       [page_name |-> 2, section |-> "Hero"],
       [page_name |-> 2, section |-> "CTA"] >>

SectionJobs == 1..Len(tasks)

EmptyCache == [s \in CacheSections |-> <<>>]

\* the cache built from the whole of cpt_sections_data, once
FullCache ==
    [s \in CacheSections |->
        IF s = "Hero" THEN <<1, 2>> ELSE <<2>>]

\* `if not hasattr(self, 'similar_sections_cache')`
NotCached == ~has_cache

CacheInit ==
    /\ has_cache = FALSE
    /\ similar_sections_cache = EmptyCache
    /\ section_pc = [j \in SectionJobs |-> "queued"]
    /\ fill_index = [j \in SectionJobs |-> 0]
    /\ is_similar = [j \in SectionJobs |-> "none"]

\* a pool thread starts process_section for the task
SectionStarts(j) ==
    /\ section_pc[j] = "queued"
    /\ section_pc' = [section_pc EXCEPT ![j] = "check"]
    /\ UNCHANGED <<has_cache, similar_sections_cache, fill_index, is_similar, cacheRest>>

\* is_similar_section: the hasattr test
CheckCache(j) ==
    /\ section_pc[j] = "check"
    /\ section_pc' = [section_pc EXCEPT ![j] = IF NotCached THEN "create" ELSE "read"]
    /\ UNCHANGED <<has_cache, similar_sections_cache, fill_index, is_similar, cacheRest>>

\* self.similar_sections_cache = {}
CreateCache(j) ==
    /\ section_pc[j] = "create"
    /\ has_cache' = TRUE
    /\ similar_sections_cache' = EmptyCache
    /\ fill_index' = [fill_index EXCEPT ![j] = 1]
    /\ section_pc' = [section_pc EXCEPT ![j] = "fill"]
    /\ UNCHANGED <<is_similar, cacheRest>>

\* one round of the two loops: the page is appended to the section's list
FillCache(j) ==
    /\ section_pc[j] = "fill"
    /\ LET t == tasks[fill_index[j]]
       IN  similar_sections_cache' =
               [similar_sections_cache EXCEPT ![t.section] = Append(@, t.page_name)]
    /\ IF fill_index[j] = Len(tasks)
       THEN /\ section_pc' = [section_pc EXCEPT ![j] = "read"]
            /\ UNCHANGED fill_index
       ELSE /\ fill_index' = [fill_index EXCEPT ![j] = @ + 1]
            /\ UNCHANGED section_pc
    /\ UNCHANGED <<has_cache, is_similar, cacheRest>>

\* return len(self.similar_sections_cache.get(section_name, [])) > 1
ReadCache(j) ==
    /\ section_pc[j] = "read"
    /\ is_similar' = [is_similar EXCEPT
                        ![j] = Len(similar_sections_cache[tasks[j].section]) > 1]
    /\ section_pc' = [section_pc EXCEPT ![j] = "done"]
    /\ UNCHANGED <<has_cache, similar_sections_cache, fill_index, cacheRest>>

CacheNext ==
    \/ \E j \in SectionJobs : SectionStarts(j)
    \/ \E j \in SectionJobs : CheckCache(j)
    \/ \E j \in SectionJobs : CreateCache(j)
    \/ \E j \in SectionJobs : FillCache(j)
    \/ \E j \in SectionJobs : ReadCache(j)

CacheOff ==
    /\ has_cache = FALSE
    /\ similar_sections_cache = <<>>
    /\ section_pc = <<>>
    /\ fill_index = <<>>
    /\ is_similar = <<>>

-----------------------------------------------------------------------------
(* Two limiters: figam.py creates figma_rate_limiter and
   gemini_rate_limiter, two instances of ThreadSafeRateLimiter, and the
   threads of the pool call wait_if_needed on the one or on the other. *)

Limiters == {"figma_rate_limiter", "gemini_rate_limiter"}

\* 1.0 / max_requests_per_second: 1 / 0.5, and 1 / 0.33 in whole seconds
MinIntervalOf(l) == IF l = "figma_rate_limiter" THEN 2 ELSE 3

\* one lock for the whole class, shared by its instances
ClassLock(l) == "figma_rate_limiter"

\* self.lock: every instance has the lock its __init__ created
LockOf(l) == l

\* both limiters as __init__ leaves them
TwoInit ==
    /\ limiters = [l \in Limiters |-> [last_request_time |-> 0, lock |-> 0]]
    /\ gate_clock = 3
    /\ gate_pc = [t \in Threads |-> "idle"]
    /\ using = [t \in Threads |-> "none"]
    /\ gate_wake = [t \in Threads |-> 0]
    /\ gate_done = [t \in Threads |-> FALSE]

\* time passes
GateTick ==
    /\ gate_clock < MaxTime
    /\ gate_clock' = gate_clock + 1
    /\ UNCHANGED <<limiters, gate_pc, using, gate_wake, gate_done, twoRest>>

\* l.wait_if_needed(): with self.lock
GateAcquire(t, l) ==
    /\ gate_pc[t] = "idle"
    /\ ~gate_done[t]
    /\ limiters[LockOf(l)].lock = 0
    /\ limiters' = [limiters EXCEPT ![LockOf(l)].lock = t]
    /\ using' = [using EXCEPT ![t] = l]
    /\ gate_pc' = [gate_pc EXCEPT ![t] = "locked"]
    /\ UNCHANGED <<gate_clock, gate_wake, gate_done, twoRest>>

\* current_time = time.time(); if time_since_last < self.min_interval:
\* time.sleep(sleep_time)
GateRead(t) ==
    /\ gate_pc[t] = "locked"
    /\ LET since == gate_clock - limiters[using[t]].last_request_time
           sleep_time == IF since < MinIntervalOf(using[t])
                         THEN MinIntervalOf(using[t]) - since ELSE 0
       IN  /\ gate_wake' = [gate_wake EXCEPT ![t] = gate_clock + sleep_time]
           /\ gate_pc' = [gate_pc EXCEPT ![t] =
                            IF sleep_time > 0 THEN "sleeping" ELSE "stamping"]
    /\ UNCHANGED <<limiters, gate_clock, using, gate_done, twoRest>>

\* time.sleep() returns
GateWake(t) ==
    /\ gate_pc[t] = "sleeping"
    /\ gate_clock >= gate_wake[t]
    /\ gate_pc' = [gate_pc EXCEPT ![t] = "stamping"]
    /\ UNCHANGED <<limiters, gate_clock, using, gate_wake, gate_done, twoRest>>

\* self.last_request_time = time.time(); the lock is released
GatePass(t) ==
    /\ gate_pc[t] = "stamping"
    /\ limiters' = [limiters EXCEPT
                      ![using[t]].last_request_time = gate_clock,
                      ![LockOf(using[t])].lock = 0]
    /\ using' = [using EXCEPT ![t] = "none"]
    /\ gate_done' = [gate_done EXCEPT ![t] = TRUE]
    /\ gate_pc' = [gate_pc EXCEPT ![t] = "idle"]
    /\ UNCHANGED <<gate_clock, gate_wake, twoRest>>

TwoNext ==
    \/ GateTick
    \/ \E t \in Threads, l \in Limiters : GateAcquire(t, l)
    \/ \E t \in Threads : GateRead(t)
    \/ \E t \in Threads : GateWake(t)
    \/ \E t \in Threads : GatePass(t)

TwoOff ==
    /\ limiters = <<>>
    /\ gate_clock = 0
    /\ gate_pc = <<>>
    /\ using = <<>>
    /\ gate_wake = <<>>
    /\ gate_done = <<>>

-----------------------------------------------------------------------------
(* Jobs patching one page file: process_section of CPT-Modification.py and
   the section jobs of CPT-Code-Modification-Shortcode.py run in a pool,
   and two of them can hold sections of the same page. *)

FileScripts == {"CPT-Modification", "CPT-Code-Modification-Shortcode"}

\* page files holding section A and section B
PageFiles ==
    { <<"SA", "x", "EA", "SB", "x", "EB">>,
      <<"SB", "x", "EB", "x", "SA", "x", "EA">>,
      <<"x", "SA", "x", "EA", "x", "SB", "x", "EB">> }

\* what the model answers for a section
NewBodies == { <<"x", "x">>, <<"x", "x", "x">> }

\* job 1 patches section A, job 2 section B
FileJobs == {1, 2}

SectionOf(j) == IF j = 1 THEN "A" ELSE "B"

\* the file after one job has patched it, the job alone with the file
PatchedAlone(s, file, name, body) ==
    IF s = "CPT-Modification"
    THEN replace_section_in_file(
             file, extract_section_code(file, name),
             <<start_marker(name)>> \o body \o <<end_marker(name)>>).file
    ELSE update_page_file_with_code(file, name, body, FALSE).file

FileInit ==
    /\ file_script \in FileScripts
    /\ page_file0 \in PageFiles
    /\ page_file = page_file0
    /\ new_codes \in [FileJobs -> NewBodies]
    /\ file_pc = [j \in FileJobs |-> "queued"]
    /\ old_codes = [j \in FileJobs |-> <<>>]
    /\ read_content = [j \in FileJobs |-> <<>>]

\* section_code = extract_section_code(php_file, php_section_name); the
\* model is then asked for the new code
ExtractCode(j) ==
    /\ file_pc[j] = "queued"
    /\ old_codes' = [old_codes EXCEPT ![j] = extract_section_code(page_file, SectionOf(j))]
    /\ file_pc' = [file_pc EXCEPT ![j] = "modified"]
    /\ UNCHANGED <<file_script, page_file0, page_file, new_codes, read_content, fileRest>>

\* with open(file, 'r') as f: content = f.read()
ReadFile(j) ==
    /\ file_pc[j] = "modified"
    /\ read_content' = [read_content EXCEPT ![j] = page_file]
    /\ file_pc' = [file_pc EXCEPT ![j] = "read"]
    /\ UNCHANGED <<file_script, page_file0, page_file, new_codes, old_codes, fileRest>>

\* new_content = ...; with open(file, 'w') as f: f.write(new_content)
WriteFile(j) ==
    /\ file_pc[j] = "read"
    /\ page_file' =
         IF file_script = "CPT-Modification"
         THEN replace_section_in_file(
                  read_content[j], old_codes[j],
                  <<start_marker(SectionOf(j))>> \o new_codes[j]
                      \o <<end_marker(SectionOf(j))>>).file
         ELSE update_page_file_with_code(
                  read_content[j], SectionOf(j), new_codes[j], FALSE).file
    /\ file_pc' = [file_pc EXCEPT ![j] = "done"]
    /\ UNCHANGED <<file_script, page_file0, new_codes, old_codes, read_content, fileRest>>

FileNext ==
    \/ \E j \in FileJobs : ExtractCode(j)
    \/ \E j \in FileJobs : ReadFile(j)
    \/ \E j \in FileJobs : WriteFile(j)

FileOff ==
    /\ file_script = "none"
    /\ page_file0 = <<>>
    /\ page_file = <<>>
    /\ new_codes = <<>>
    /\ file_pc = <<>>
    /\ old_codes = <<>>
    /\ read_content = <<>>

-----------------------------------------------------------------------------
(* Requests behind a limiter: figma_api_get and generate_code_with_gemini
   of figam.py pass the service's limiter once, then try their request up
   to three times. *)

ServiceFns == {"figma_api_get", "generate_code_with_gemini"}

\* the limiter each function waits at
LimiterOf(fn) ==
    IF fn = "figma_api_get" THEN "figma_rate_limiter" ELSE "gemini_rate_limiter"

\* seconds a request takes before it fails or answers
Durations == {0, 1}

SvcInit ==
    /\ svc_fn \in ServiceFns
    /\ svc_clock = 3
    /\ svc_last = 0
    /\ svc_attempt = 0
    /\ svc_pc = "idle"
    /\ request_starts = <<>>

\* the function is called: wait_if_needed sleeps until min_interval has
\* passed since last_request_time, and stamps the time
PassLimiter ==
    /\ svc_pc = "idle"
    /\ svc_clock < MaxTime
    /\ LET since == svc_clock - svc_last
           now == IF since < MinIntervalOf(LimiterOf(svc_fn))
                  THEN svc_last + MinIntervalOf(LimiterOf(svc_fn))
                  ELSE svc_clock
       IN  svc_clock' = now /\ svc_last' = now
    /\ svc_attempt' = 0
    /\ svc_pc' = "trying"
    /\ UNCHANGED <<svc_fn, request_starts, svcRest>>

\* the request of this attempt is sent and answered
AttemptSucceeds ==
    \E d \in Durations :
        /\ svc_pc = "trying"
        /\ request_starts' = Append(request_starts, svc_clock)
        /\ svc_clock' = svc_clock + d
        /\ svc_pc' = "idle"
        /\ UNCHANGED <<svc_fn, svc_last, svc_attempt, svcRest>>

\* the request of this attempt is sent and fails: time.sleep(2 ** attempt)
\* and the next attempt, or the end of the function at the last one
AttemptFails ==
    \E d \in Durations :
        /\ svc_pc = "trying"
        /\ request_starts' = Append(request_starts, svc_clock)
        /\ IF svc_attempt < request_max_retries - 1
           THEN /\ svc_clock' = svc_clock + d + Pow2(svc_attempt)
                /\ svc_attempt' = svc_attempt + 1
                /\ UNCHANGED svc_pc
           ELSE /\ svc_clock' = svc_clock + d
                /\ svc_pc' = "idle"
                /\ UNCHANGED svc_attempt
        /\ UNCHANGED <<svc_fn, svc_last, svcRest>>

SvcNext ==
    \/ PassLimiter
    \/ AttemptSucceeds
    \/ AttemptFails

SvcOff ==
    /\ svc_fn = "none"
    /\ svc_clock = 0
    /\ svc_last = 0
    /\ svc_attempt = 0
    /\ svc_pc = "off"
    /\ request_starts = <<>>

-----------------------------------------------------------------------------
(* The decorated model calls of CPT-Code-Modification-Shortcode.py: three
   functions wrapped by retry_on_rate_limit, each with a try/except of its
   own around the model call. *)

DecoratedFns == {"analyze_images_with_gemini", "generate_shortcode_with_gemini",
                 "modify_section_code_with_gemini"}

\* `except Exception as e:` inside the function, around model.generate_content
Swallows(fn) == fn \in DecoratedFns

\* what the function's own handler returns
FailureValue(fn) == IF fn = "analyze_images_with_gemini" THEN "NO" ELSE "None"

DecoInit ==
    /\ deco_fn = "none"
    /\ deco_attempt = 0
    /\ deco_tries = 0
    /\ deco_log = <<>>

\* a job calls one of the decorated functions: wrapper, first round
CallDecorated(fn) ==
    /\ deco_fn = "none"
    /\ Len(deco_log) < MaxModelCalls
    /\ deco_fn' = fn
    /\ deco_attempt' = 0
    /\ deco_tries' = 0
    /\ UNCHANGED <<deco_log, decoRest>>

\* model.generate_content answers; the wrapper returns the function's value
ModelAnswers ==
    /\ deco_fn # "none"
    /\ deco_log' = Append(deco_log, [fn |-> deco_fn, error |-> "ok",
                                     tries |-> deco_tries + 1, result |-> "value"])
    /\ deco_fn' = "none"
    /\ UNCHANGED <<deco_attempt, deco_tries, decoRest>>

\* model.generate_content raises: the function's handler, and the wrapper's
\* for what the function lets out
ModelRaises ==
    \E err \in Errors :
        /\ deco_fn # "none"
        /\ IF Swallows(deco_fn)
           THEN /\ deco_log' = Append(deco_log,
                                  [fn |-> deco_fn, error |-> err,
                                   tries |-> deco_tries + 1,
                                   result |-> FailureValue(deco_fn)])
                /\ deco_fn' = "none"
                /\ UNCHANGED <<deco_attempt, deco_tries>>
           ELSE IF Retries("retry_on_rate_limit", err)
                   /\ ~IsLastAttempt("retry_on_rate_limit", deco_attempt)
           THEN /\ deco_attempt' = deco_attempt + 1
                /\ deco_tries' = deco_tries + 1
                /\ UNCHANGED <<deco_fn, deco_log>>
           ELSE /\ deco_log' = Append(deco_log,
                                  [fn |-> deco_fn, error |-> err,
                                   tries |-> deco_tries + 1,
                                   result |-> "raised"])
                /\ deco_fn' = "none"
                /\ UNCHANGED <<deco_attempt, deco_tries>>
        /\ UNCHANGED decoRest

DecoNext ==
    \/ \E fn \in DecoratedFns : CallDecorated(fn)
    \/ ModelAnswers
    \/ ModelRaises

DecoOff ==
    /\ deco_fn = "off"
    /\ deco_attempt = 0
    /\ deco_tries = 0
    /\ deco_log = <<>>

-----------------------------------------------------------------------------
(* CPT-Modification.py: the ACF documentation of a section.  Every task of  *)
(* process_all_sections_multithreaded runs process_section in a pool of     *)
(* three workers; for a section that stands on several pages the jobs share *)
(* self.generated_acf_docs, read and written without a lock.                *)

AcfDocs == {"doc", "None"}

\* `acf_doc_key = f"acf_doc_{php_section_name}"`
acf_doc_key(section_name) == section_name

\* the answer of is_similar_section on the whole of cpt_sections_data
StandsOnSeveralPages(section_name) == Len(FullCache[section_name]) > 1

DocInit ==
    /\ has_docs = FALSE
    /\ generated_acf_docs = {}
    /\ doc_pc = [j \in SectionJobs |-> "queued"]
    /\ combined_docs = [s \in CacheSections |-> 0]
    /\ page_docs = [j \in SectionJobs |-> 0]

\* the job runs up to `if is_similar:`; extract_section_code,
\* modify_section_with_gemini and replace_section_in_file may each make it
\* return False before
ReachesDocs(j) ==
    /\ doc_pc[j] = "queued"
    /\ \E ok \in BOOLEAN :
        doc_pc' = [doc_pc EXCEPT ![j] =
            IF ~ok THEN "done"
            ELSE IF StandsOnSeveralPages(tasks[j].section) THEN "attr"
            ELSE "unique"]
    /\ UNCHANGED <<has_docs, generated_acf_docs, combined_docs, page_docs,
                   docRest>>

\* `if not hasattr(self, 'generated_acf_docs'):`
ReadAttr(j) ==
    /\ doc_pc[j] = "attr"
    /\ doc_pc' = [doc_pc EXCEPT ![j] = IF has_docs THEN "check" ELSE "create"]
    /\ UNCHANGED <<has_docs, generated_acf_docs, combined_docs, page_docs,
                   docRest>>

\* `self.generated_acf_docs = set()`
CreateSet(j) ==
    /\ doc_pc[j] = "create"
    /\ has_docs' = TRUE
    /\ generated_acf_docs' = {}
    /\ doc_pc' = [doc_pc EXCEPT ![j] = "check"]
    /\ UNCHANGED <<combined_docs, page_docs, docRest>>

\* `if acf_doc_key not in self.generated_acf_docs:`
CheckKey(j) ==
    /\ doc_pc[j] = "check"
    /\ doc_pc' = [doc_pc EXCEPT ![j] =
           IF acf_doc_key(tasks[j].section) \notin generated_acf_docs
           THEN "generate" ELSE "done"]
    /\ UNCHANGED <<has_docs, generated_acf_docs, combined_docs, page_docs,
                   docRest>>

\* generate_acf_documentation_with_gemini for all the pages, and when it
\* answered, save_acf_documentation(..., "combined") and the add of the key
GenerateCombined(j) ==
    /\ doc_pc[j] = "generate"
    /\ \E acf_doc \in AcfDocs :
        IF acf_doc # "None"
        THEN /\ combined_docs' =
                    [combined_docs EXCEPT ![tasks[j].section] = @ + 1]
             /\ generated_acf_docs' =
                    generated_acf_docs \cup {acf_doc_key(tasks[j].section)}
        ELSE UNCHANGED <<combined_docs, generated_acf_docs>>
    /\ doc_pc' = [doc_pc EXCEPT ![j] = "done"]
    /\ UNCHANGED <<has_docs, page_docs, docRest>>

\* the else branch: the documentation of a section of one page
GenerateForPage(j) ==
    /\ doc_pc[j] = "unique"
    /\ \E acf_doc \in AcfDocs :
        page_docs' = [page_docs EXCEPT ![j] =
                          IF acf_doc # "None" THEN @ + 1 ELSE @]
    /\ doc_pc' = [doc_pc EXCEPT ![j] = "done"]
    /\ UNCHANGED <<has_docs, generated_acf_docs, combined_docs, docRest>>

DocNext ==
    \/ \E j \in SectionJobs : ReachesDocs(j)
    \/ \E j \in SectionJobs : ReadAttr(j)
    \/ \E j \in SectionJobs : CreateSet(j)
    \/ \E j \in SectionJobs : CheckKey(j)
    \/ \E j \in SectionJobs : GenerateCombined(j)
    \/ \E j \in SectionJobs : GenerateForPage(j)

DocOff ==
    /\ has_docs = FALSE
    /\ generated_acf_docs = {}
    /\ doc_pc = <<>>
    /\ combined_docs = <<>>
    /\ page_docs = <<>>

-----------------------------------------------------------------------------
(* The processing delay of LangChain-Checker-2.py, WordPress.py and         *)
(* ACF_Generator.py.  Every worker of the pool makes its model call and     *)
(* then sleeps the configured delay; only LangChain-Checker-2.py holds a    *)
(* lock over the call and the sleep.  The error drawn is one the script     *)
(* does not retry.                                                          *)

DelayScripts == {"LangChain-Checker-2", "WordPress", "ACF_Generator"}

\* `"processing_delay": int(os.getenv("PROCESSING_DELAY", 3))`
processing_delay == 3

\* `with self._lock:` around the call and the sleep of process_with_image
HoldsProcessorLock(s) == s = "LangChain-Checker-2"

DelayInit ==
    /\ delay_script \in DelayScripts
    /\ delay_clock = 0
    /\ processor_lock = 0
    /\ delay_pc = [w \in Workers |-> "idle"]
    /\ delay_wake = [w \in Workers |-> 0]
    /\ call_starts = <<>>

DelayTick ==
    /\ delay_script # "none"
    /\ delay_clock < MaxTime
    /\ delay_clock' = delay_clock + 1
    /\ UNCHANGED <<delay_script, processor_lock, delay_pc, delay_wake,
                   call_starts, delayRest>>

\* the worker enters the lock where there is one and starts the model call
BeginModelCall(w) ==
    /\ delay_script # "none"
    /\ delay_pc[w] = "idle"
    /\ IF HoldsProcessorLock(delay_script)
       THEN /\ processor_lock = 0
            /\ processor_lock' = w
       ELSE UNCHANGED processor_lock
    /\ call_starts' = Append(call_starts, delay_clock)
    /\ delay_pc' = [delay_pc EXCEPT ![w] = "calling"]
    /\ UNCHANGED <<delay_script, delay_clock, delay_wake, delayRest>>

\* the call answered: `time.sleep(self.processing_delay)` begins
ModelCallReturns(w) ==
    /\ delay_pc[w] = "calling"
    /\ delay_pc' = [delay_pc EXCEPT ![w] = "sleeping"]
    /\ delay_wake' = [delay_wake EXCEPT ![w] = delay_clock + processing_delay]
    /\ UNCHANGED <<delay_script, delay_clock, processor_lock, call_starts,
                   delayRest>>

\* the call raised: the handler logs and the function ends (LangChain
\* re-raises out of the with block, WordPress returns, ACF_Generator returns
\* None), and the sleep is not reached
ModelCallRaises(w) ==
    /\ delay_pc[w] = "calling"
    /\ delay_pc' = [delay_pc EXCEPT ![w] = "done"]
    /\ processor_lock' = IF processor_lock = w THEN 0 ELSE processor_lock
    /\ UNCHANGED <<delay_script, delay_clock, delay_wake, call_starts,
                   delayRest>>

\* the sleep is over; the with block, where there is one, ends
DelayEnds(w) ==
    /\ delay_pc[w] = "sleeping"
    /\ delay_clock >= delay_wake[w]
    /\ delay_pc' = [delay_pc EXCEPT ![w] = "done"]
    /\ processor_lock' = IF processor_lock = w THEN 0 ELSE processor_lock
    /\ UNCHANGED <<delay_script, delay_clock, delay_wake, call_starts,
                   delayRest>>

DelayNext ==
    \/ DelayTick
    \/ \E w \in Workers : BeginModelCall(w)
    \/ \E w \in Workers : ModelCallReturns(w)
    \/ \E w \in Workers : ModelCallRaises(w)
    \/ \E w \in Workers : DelayEnds(w)

DelayOff ==
    /\ delay_script = "none"
    /\ delay_clock = 0
    /\ processor_lock = 0
    /\ delay_pc = <<>>
    /\ delay_wake = <<>>
    /\ call_starts = <<>>

-----------------------------------------------------------------------------
(* figam.py: download_node_image, the download of the image of one page.   *)
(* Its loop of three attempts calls figma_api_get, which has its own loop   *)
(* of three requests, and then fetches the image from the URL returned.     *)

\* `max_retries = 3` of download_node_image
download_max_retries == 3

ImgInit ==
    /\ img_pc = "api"
    /\ img_attempt = 0
    /\ api_attempt = 0
    /\ api_errors = <<>>
    /\ api_requests = 0
    /\ img_result = "none"

\* `except Exception as e:` of download_node_image: sleep and go round, or
\* `return None, None` at the last attempt
AttemptFailed ==
    IF img_attempt < download_max_retries - 1
    THEN /\ img_attempt' = img_attempt + 1
         /\ api_attempt' = 0
         /\ img_pc' = "api"
         /\ UNCHANGED img_result
    ELSE /\ img_pc' = "done"
         /\ img_result' = "None"
         /\ UNCHANGED <<img_attempt, api_attempt>>

\* the requests.get of figma_api_get answers: the image URL is there, or the
\* answer holds 'err' or no URL and the function returns None, None
ApiRequestAnswers ==
    /\ img_pc = "api"
    /\ api_requests' = api_requests + 1
    /\ \E answer \in {"url", "err", "no url"} :
        IF answer = "url"
        THEN /\ img_pc' = "download"
             /\ UNCHANGED img_result
        ELSE /\ img_pc' = "done"
             /\ img_result' = "None"
    /\ UNCHANGED <<img_attempt, api_attempt, api_errors, imgRest>>

\* the requests.get of figma_api_get raises e: figma_api_get tries again,
\* or raises at its last attempt or when e is not a RequestException, and
\* then the handler of download_node_image takes over
ApiRequestRaises ==
    /\ img_pc = "api"
    /\ api_requests' = api_requests + 1
    /\ \E e \in Raisable :
        /\ api_errors' = Append(api_errors, e)
        /\ IF Caught(e) /\ api_attempt < request_max_retries - 1
           THEN /\ api_attempt' = api_attempt + 1
                /\ UNCHANGED <<img_pc, img_attempt, img_result>>
           ELSE AttemptFailed
    /\ UNCHANGED imgRest

\* requests.get(img_url), Image.open and image.save pass
ImageSaved ==
    /\ img_pc = "download"
    /\ img_pc' = "done"
    /\ img_result' = "path"
    /\ UNCHANGED <<img_attempt, api_attempt, api_errors, api_requests,
                   imgRest>>

\* one of them raises
ImageFails ==
    /\ img_pc = "download"
    /\ AttemptFailed
    /\ UNCHANGED <<api_errors, api_requests, imgRest>>

ImgNext ==
    \/ ApiRequestAnswers
    \/ ApiRequestRaises
    \/ ImageSaved
    \/ ImageFails

ImgOff ==
    /\ img_pc = "off"
    /\ img_attempt = 0
    /\ api_attempt = 0
    /\ api_errors = <<>>
    /\ api_requests = 0
    /\ img_result = "none"

-----------------------------------------------------------------------------
(* CPT-Code-Modification-Shortcode.py: process_similar_section on one page: *)
(* the section is extracted from the page file, and when something came     *)
(* back the page file is updated with the modified code.                    *)

\* what a page file is made of: text and the markers of the section in the
\* first two spellings
PageTokens == {"x", "SA", "EA", "SA2", "EA2"}

PageContents == SeqsUpTo(PageTokens, MaxPageLen)

UpdInit ==
    /\ upd_content \in PageContents
    /\ upd_pc = "extract"
    /\ upd_section_code = None
    /\ upd_ret = "none"
    /\ upd_content0 = upd_content

\* `section_code = extract_section_code_from_page(page_file, section_name)`
\* and `if not section_code: continue`
ExtractFromPage ==
    /\ upd_pc = "extract"
    /\ upd_section_code' = extract_section_code_from_page(upd_content, "A")
    /\ upd_pc' = IF Falsy(upd_section_code') THEN "skipped" ELSE "update"
    /\ UNCHANGED <<upd_content, upd_content0, upd_ret, updRest>>

\* `update_page_file_with_code(page_file, section_name, modified_code,
\* is_shortcode=False)` with the code the model returned
UpdatePage ==
    /\ upd_pc = "update"
    /\ \E modified_code \in Bodies \ {<<>>} :
        LET r == update_page_file_with_code(upd_content, "A", modified_code,
                                            FALSE)
        IN  /\ upd_ret' = r.ret
            /\ upd_content' = r.file
    /\ upd_pc' = "done"
    /\ UNCHANGED <<upd_content0, upd_section_code, updRest>>

UpdNext ==
    \/ ExtractFromPage
    \/ UpdatePage

UpdOff ==
    /\ upd_content = <<>>
    /\ upd_pc = "off"
    /\ upd_section_code = <<>>
    /\ upd_ret = "none"
    /\ upd_content0 = <<>>

-----------------------------------------------------------------------------
(* Nevigation-Generation.py: the two locks.  main starts HeaderFooterThread *)
(* and ACFFieldThread and joins both.  log_message and log_section hold     *)
(* log_lock; the token accounting after a model call holds token_lock and   *)
(* calls log_message inside it.                                             *)

GeneratorThreads == {"HeaderFooterThread", "ACFFieldThread"}

LockNames == {"token_lock", "log_lock"}

CriticalOps == {"log_message", "track_tokens"}

\* a log_message that would do the token accounting under its own lock
lock_order_reversed(op) ==
    IF op = "log_message" THEN <<"log_lock", "token_lock">>
    ELSE <<"token_lock", "log_lock">>

\* the locks an operation takes, in the order it takes them: `with log_lock:`
\* in log_message; `with token_lock:` and log_message within it
lock_order(op) ==
    IF op = "log_message" THEN <<"log_lock">>
    ELSE <<"token_lock", "log_lock">>

\* create_header_footer_content calls generate_markdown_from_image, which
\* accounts tokens; extract_menu_field_names only logs
OpsOf(t) ==
    IF t = "HeaderFooterThread" THEN CriticalOps ELSE {"log_message"}

LockInit ==
    /\ lock_owner = [l \in LockNames |-> "free"]
    /\ lock_op = [t \in GeneratorThreads |-> "none"]
    /\ locks_held = [t \in GeneratorThreads |-> <<>>]
    /\ leaving = [t \in GeneratorThreads |-> FALSE]
    /\ ops_left = [t \in GeneratorThreads |-> MaxLockOps]

\* the thread comes to a log_message or to the token accounting
BeginCritical(t, op) ==
    /\ lock_op[t] = "none"
    /\ ops_left[t] > 0
    /\ op \in OpsOf(t)
    /\ lock_op' = [lock_op EXCEPT ![t] = op]
    /\ UNCHANGED <<lock_owner, locks_held, leaving, ops_left, lockRest>>

\* `with lock:` entered: the next lock of the operation, when it is free
TakeLock(t) ==
    /\ lock_op[t] # "none"
    /\ ~leaving[t]
    /\ LET order == lock_order(lock_op[t])
           l == order[Len(locks_held[t]) + 1]
       IN  /\ lock_owner[l] = "free"
           /\ lock_owner' = [lock_owner EXCEPT ![l] = t]
           /\ locks_held' = [locks_held EXCEPT ![t] = Append(@, l)]
           /\ leaving' = [leaving EXCEPT ![t] = Len(locks_held'[t]) = Len(order)]
    /\ UNCHANGED <<lock_op, ops_left, lockRest>>

\* the innermost with block ends; after the outermost the operation is over
DropLock(t) ==
    /\ leaving[t]
    /\ LET l == locks_held[t][Len(locks_held[t])]
       IN  /\ lock_owner' = [lock_owner EXCEPT ![l] = "free"]
           /\ locks_held' = [locks_held EXCEPT ![t] = SubSeq(@, 1, Len(@) - 1)]
    /\ IF Len(locks_held[t]) = 1
       THEN /\ leaving' = [leaving EXCEPT ![t] = FALSE]
            /\ lock_op' = [lock_op EXCEPT ![t] = "none"]
            /\ ops_left' = [ops_left EXCEPT ![t] = @ - 1]
       ELSE UNCHANGED <<leaving, lock_op, ops_left>>
    /\ UNCHANGED lockRest

LockNext ==
    \/ \E t \in GeneratorThreads, op \in CriticalOps : BeginCritical(t, op)
    \/ \E t \in GeneratorThreads : TakeLock(t)
    \/ \E t \in GeneratorThreads : DropLock(t)

LockOff ==
    /\ lock_owner = <<>>
    /\ lock_op = <<>>
    /\ locks_held = <<>>
    /\ leaving = <<>>
    /\ ops_left = <<>>

-----------------------------------------------------------------------------
(* Specifications: one per part of the program, the other parts at rest *)

PatchStart ==
    /\ PatchInit
    /\ LimOff
    /\ CntOff
    /\ RetryOff
    /\ PoolOff
    /\ OrchOff
    /\ ScanOff
    /\ GroupOff
    /\ CallOff
    /\ ThrOff
    /\ ReqOff
    /\ CacheOff
    /\ TwoOff
    /\ FileOff
    /\ SvcOff
    /\ DecoOff
    /\ DocOff
    /\ DelayOff
    /\ ImgOff
    /\ UpdOff
    /\ LockOff

SpecPatch == PatchStart /\ [][PatchNext]_vars

LimStart ==
    /\ LimInit
    /\ PatchOff
    /\ CntOff
    /\ RetryOff
    /\ PoolOff
    /\ OrchOff
    /\ ScanOff
    /\ GroupOff
    /\ CallOff
    /\ ThrOff
    /\ ReqOff
    /\ CacheOff
    /\ TwoOff
    /\ FileOff
    /\ SvcOff
    /\ DecoOff
    /\ DocOff
    /\ DelayOff
    /\ ImgOff
    /\ UpdOff
    /\ LockOff

SpecLimiter == LimStart /\ [][LimNext]_vars

SpecLimiterLive == LimStart /\ [][LimNextLive]_vars /\ LimFair

CntStart ==
    /\ CntInit
    /\ PatchOff
    /\ LimOff
    /\ RetryOff
    /\ PoolOff
    /\ OrchOff
    /\ ScanOff
    /\ GroupOff
    /\ CallOff
    /\ ThrOff
    /\ ReqOff
    /\ CacheOff
    /\ TwoOff
    /\ FileOff
    /\ SvcOff
    /\ DecoOff
    /\ DocOff
    /\ DelayOff
    /\ ImgOff
    /\ UpdOff
    /\ LockOff

SpecCounter == CntStart /\ [][CntNext]_vars

RetryStart ==
    /\ RetryInit
    /\ PatchOff
    /\ LimOff
    /\ CntOff
    /\ PoolOff
    /\ OrchOff
    /\ ScanOff
    /\ GroupOff
    /\ CallOff
    /\ ThrOff
    /\ ReqOff
    /\ CacheOff
    /\ TwoOff
    /\ FileOff
    /\ SvcOff
    /\ DecoOff
    /\ DocOff
    /\ DelayOff
    /\ ImgOff
    /\ UpdOff
    /\ LockOff

SpecRetry == RetryStart /\ [][RetryNext]_vars

PoolStart ==
    /\ PoolInit
    /\ PatchOff
    /\ LimOff
    /\ CntOff
    /\ RetryOff
    /\ OrchOff
    /\ ScanOff
    /\ GroupOff
    /\ CallOff
    /\ ThrOff
    /\ ReqOff
    /\ CacheOff
    /\ TwoOff
    /\ FileOff
    /\ SvcOff
    /\ DecoOff
    /\ DocOff
    /\ DelayOff
    /\ ImgOff
    /\ UpdOff
    /\ LockOff

SpecPool == PoolStart /\ [][PoolNext]_vars

OrchStart ==
    /\ OrchInit
    /\ PatchOff
    /\ LimOff
    /\ CntOff
    /\ RetryOff
    /\ PoolOff
    /\ ScanOff
    /\ GroupOff
    /\ CallOff
    /\ ThrOff
    /\ ReqOff
    /\ CacheOff
    /\ TwoOff
    /\ FileOff
    /\ SvcOff
    /\ DecoOff
    /\ DocOff
    /\ DelayOff
    /\ ImgOff
    /\ UpdOff
    /\ LockOff

SpecOrch == OrchStart /\ [][OrchNext]_vars

ScanStart ==
    /\ ScanInit
    /\ PatchOff
    /\ LimOff
    /\ CntOff
    /\ RetryOff
    /\ PoolOff
    /\ OrchOff
    /\ GroupOff
    /\ CallOff
    /\ ThrOff
    /\ ReqOff
    /\ CacheOff
    /\ TwoOff
    /\ FileOff
    /\ SvcOff
    /\ DecoOff
    /\ DocOff
    /\ DelayOff
    /\ ImgOff
    /\ UpdOff
    /\ LockOff

SpecScan == ScanStart /\ [][ScanNext]_vars

GroupStart ==
    /\ GroupInit
    /\ PatchOff
    /\ LimOff
    /\ CntOff
    /\ RetryOff
    /\ PoolOff
    /\ OrchOff
    /\ ScanOff
    /\ CallOff
    /\ ThrOff
    /\ ReqOff
    /\ CacheOff
    /\ TwoOff
    /\ FileOff
    /\ SvcOff
    /\ DecoOff
    /\ DocOff
    /\ DelayOff
    /\ ImgOff
    /\ UpdOff
    /\ LockOff

SpecGroup == GroupStart /\ [][GroupNext]_vars

CallStart ==
    /\ CallInit
    /\ PatchOff
    /\ LimOff
    /\ CntOff
    /\ RetryOff
    /\ PoolOff
    /\ OrchOff
    /\ ScanOff
    /\ GroupOff
    /\ ThrOff
    /\ ReqOff
    /\ CacheOff
    /\ TwoOff
    /\ FileOff
    /\ SvcOff
    /\ DecoOff
    /\ DocOff
    /\ DelayOff
    /\ ImgOff
    /\ UpdOff
    /\ LockOff

SpecCall == CallStart /\ [][CallNext]_vars

ThrStart ==
    /\ ThrInit
    /\ PatchOff
    /\ LimOff
    /\ CntOff
    /\ RetryOff
    /\ PoolOff
    /\ OrchOff
    /\ ScanOff
    /\ GroupOff
    /\ CallOff
    /\ ReqOff
    /\ CacheOff
    /\ TwoOff
    /\ FileOff
    /\ SvcOff
    /\ DecoOff
    /\ DocOff
    /\ DelayOff
    /\ ImgOff
    /\ UpdOff
    /\ LockOff

SpecThr == ThrStart /\ [][ThrNext]_vars

ReqStart ==
    /\ ReqInit
    /\ PatchOff
    /\ LimOff
    /\ CntOff
    /\ RetryOff
    /\ PoolOff
    /\ OrchOff
    /\ ScanOff
    /\ GroupOff
    /\ CallOff
    /\ ThrOff
    /\ CacheOff
    /\ TwoOff
    /\ FileOff
    /\ SvcOff
    /\ DecoOff
    /\ DocOff
    /\ DelayOff
    /\ ImgOff
    /\ UpdOff
    /\ LockOff

SpecReq == ReqStart /\ [][ReqNext]_vars

CacheStart ==
    /\ CacheInit
    /\ PatchOff
    /\ LimOff
    /\ CntOff
    /\ RetryOff
    /\ PoolOff
    /\ OrchOff
    /\ ScanOff
    /\ GroupOff
    /\ CallOff
    /\ ThrOff
    /\ ReqOff
    /\ TwoOff
    /\ FileOff
    /\ SvcOff
    /\ DecoOff
    /\ DocOff
    /\ DelayOff
    /\ ImgOff
    /\ UpdOff
    /\ LockOff

SpecCache == CacheStart /\ [][CacheNext]_vars

TwoStart ==
    /\ TwoInit
    /\ PatchOff
    /\ LimOff
    /\ CntOff
    /\ RetryOff
    /\ PoolOff
    /\ OrchOff
    /\ ScanOff
    /\ GroupOff
    /\ CallOff
    /\ ThrOff
    /\ ReqOff
    /\ CacheOff
    /\ FileOff
    /\ SvcOff
    /\ DecoOff
    /\ DocOff
    /\ DelayOff
    /\ ImgOff
    /\ UpdOff
    /\ LockOff

SpecTwo == TwoStart /\ [][TwoNext]_vars

FileStart ==
    /\ FileInit
    /\ PatchOff
    /\ LimOff
    /\ CntOff
    /\ RetryOff
    /\ PoolOff
    /\ OrchOff
    /\ ScanOff
    /\ GroupOff
    /\ CallOff
    /\ ThrOff
    /\ ReqOff
    /\ CacheOff
    /\ TwoOff
    /\ SvcOff
    /\ DecoOff
    /\ DocOff
    /\ DelayOff
    /\ ImgOff
    /\ UpdOff
    /\ LockOff

SpecFile == FileStart /\ [][FileNext]_vars

SvcStart ==
    /\ SvcInit
    /\ PatchOff
    /\ LimOff
    /\ CntOff
    /\ RetryOff
    /\ PoolOff
    /\ OrchOff
    /\ ScanOff
    /\ GroupOff
    /\ CallOff
    /\ ThrOff
    /\ ReqOff
    /\ CacheOff
    /\ TwoOff
    /\ FileOff
    /\ DecoOff
    /\ DocOff
    /\ DelayOff
    /\ ImgOff
    /\ UpdOff
    /\ LockOff

SpecSvc == SvcStart /\ [][SvcNext]_vars

DecoStart ==
    /\ DecoInit
    /\ PatchOff
    /\ LimOff
    /\ CntOff
    /\ RetryOff
    /\ PoolOff
    /\ OrchOff
    /\ ScanOff
    /\ GroupOff
    /\ CallOff
    /\ ThrOff
    /\ ReqOff
    /\ CacheOff
    /\ TwoOff
    /\ FileOff
    /\ SvcOff
    /\ DocOff
    /\ DelayOff
    /\ ImgOff
    /\ UpdOff
    /\ LockOff

SpecDeco == DecoStart /\ [][DecoNext]_vars

DocStart ==
    /\ DocInit
    /\ PatchOff
    /\ LimOff
    /\ CntOff
    /\ RetryOff
    /\ PoolOff
    /\ OrchOff
    /\ ScanOff
    /\ GroupOff
    /\ CallOff
    /\ ThrOff
    /\ ReqOff
    /\ CacheOff
    /\ TwoOff
    /\ FileOff
    /\ SvcOff
    /\ DecoOff
    /\ DelayOff
    /\ ImgOff
    /\ UpdOff
    /\ LockOff

SpecDoc == DocStart /\ [][DocNext]_vars

DelayStart ==
    /\ DelayInit
    /\ PatchOff
    /\ LimOff
    /\ CntOff
    /\ RetryOff
    /\ PoolOff
    /\ OrchOff
    /\ ScanOff
    /\ GroupOff
    /\ CallOff
    /\ ThrOff
    /\ ReqOff
    /\ CacheOff
    /\ TwoOff
    /\ FileOff
    /\ SvcOff
    /\ DecoOff
    /\ DocOff
    /\ ImgOff
    /\ UpdOff
    /\ LockOff

SpecDelay == DelayStart /\ [][DelayNext]_vars

ImgStart ==
    /\ ImgInit
    /\ PatchOff
    /\ LimOff
    /\ CntOff
    /\ RetryOff
    /\ PoolOff
    /\ OrchOff
    /\ ScanOff
    /\ GroupOff
    /\ CallOff
    /\ ThrOff
    /\ ReqOff
    /\ CacheOff
    /\ TwoOff
    /\ FileOff
    /\ SvcOff
    /\ DecoOff
    /\ DocOff
    /\ DelayOff
    /\ UpdOff
    /\ LockOff

SpecImg == ImgStart /\ [][ImgNext]_vars

UpdStart ==
    /\ UpdInit
    /\ PatchOff
    /\ LimOff
    /\ CntOff
    /\ RetryOff
    /\ PoolOff
    /\ OrchOff
    /\ ScanOff
    /\ GroupOff
    /\ CallOff
    /\ ThrOff
    /\ ReqOff
    /\ CacheOff
    /\ TwoOff
    /\ FileOff
    /\ SvcOff
    /\ DecoOff
    /\ DocOff
    /\ DelayOff
    /\ ImgOff
    /\ LockOff

SpecUpd == UpdStart /\ [][UpdNext]_vars

LockStart ==
    /\ LockInit
    /\ PatchOff
    /\ LimOff
    /\ CntOff
    /\ RetryOff
    /\ PoolOff
    /\ OrchOff
    /\ ScanOff
    /\ GroupOff
    /\ CallOff
    /\ ThrOff
    /\ ReqOff
    /\ CacheOff
    /\ TwoOff
    /\ FileOff
    /\ SvcOff
    /\ DecoOff
    /\ DocOff
    /\ DelayOff
    /\ ImgOff
    /\ UpdOff

SpecLock == LockStart /\ [][LockNext]_vars

-----------------------------------------------------------------------------
(* Properties of the section patchers *)

Other(name) == IF name = "A" THEN "B" ELSE "A"

\* the first start marker of name and the first end marker after it, as
\* <<start index, end index>>; <<0, 0>> when there is no such pair
RegionSpan(text, name) ==
    LET s == Find(text, start_marker(name), 1)
        e == IF s = 0 THEN 0 ELSE Find(text, end_marker(name), s + 1)
    IN  IF s = 0 \/ e = 0 THEN <<0, 0>> ELSE <<s, e>>

HasRegion(text, name) == RegionSpan(text, name)[1] # 0

\* the substring associated with name: its markers and the body between them
Region(text, name) ==
    LET r == RegionSpan(text, name)
    IN  IF r[1] = 0 THEN None ELSE SubSeq(text, r[1], r[2])

\* one of name's markers is missing from text
MarkerMissing(text, name) ==
    \/ Find(text, start_marker(name), 1) = 0
    \/ Find(text, end_marker(name), 1) = 0

HoldsMarkerOf(text, name) ==
    \E i \in 1..Len(text) : text[i] \in {start_marker(name), end_marker(name)}

\* the patcher fn applied to text
Patched(fn, text, name, body) ==
    IF fn = "replace_section_html" THEN replace_section_html(text, name, body)
    ELSE IF fn = "update_page_file_with_code"
         THEN update_page_file_with_code(text, name, body, FALSE).file
         ELSE text

\* this step is a call of one of the patchers in fns
PatchStepBy(fns) == lastOp'.fn \in fns /\ ret' \in {"text", "True", "False"}

\* C1: patch idempotence.  However often the region M of a host H holding
\* the marker pair of M was patched before, after a patch with body B2 the
\* text is replace(H, M, B2): nothing of an earlier body is left.
C1_PatchIdempotence ==
    (/\ lastOp.fn \in {"replace_section_html", "update_page_file_with_code"}
     /\ HasRegion(host0, lastOp.name))
    => content = Patched(lastOp.fn, host0, lastOp.name, lastOp.body)

\* the region of m2 is nested in a span from a start marker of m1 to the
\* first end marker of m1 after it
Enclosed(text, m1, m2) ==
    LET r == RegionSpan(text, m2)
    IN  \E i \in 1..(r[1] - 1) :
            /\ text[i] = start_marker(m1)
            /\ Find(text, end_marker(m1), i + 1) > r[2]

\* C6 as stated: in a host with the regions of two names, a patch of one
\* never changes the substring associated with the other.
C6_PatchIsolation ==
    [][(/\ PatchStepBy({"replace_section_html", "replace_section_in_file"})
        /\ HasRegion(content, lastOp'.name)
        /\ HasRegion(content, Other(lastOp'.name)))
       => Region(content', Other(lastOp'.name)) = Region(content, Other(lastOp'.name))
      ]_patchVars

\* the case in which the region of m2 is out of the reach of a patch of m1:
\* it holds no marker of m1, it is not nested in a start..end span of m1,
\* and the new body holds no start marker of m2
Apart(text, m1, m2, body) ==
    /\ ~HoldsMarkerOf(Region(text, m2), m1)
    /\ ~Enclosed(text, m1, m2)
    /\ \A i \in 1..Len(body) : body[i] # start_marker(m2)

\* C6 amended: a patch of M1 leaves the substring associated with M2 (its
\* first start marker, the body and the end marker after it) unchanged when
\* that substring holds no marker of M1 and is not nested in an M1 region,
\* and the new body holds no start marker of M2.
C6_PatchIsolationApart ==
    [][(/\ PatchStepBy({"replace_section_html", "replace_section_in_file"})
        /\ HasRegion(content, lastOp'.name)
        /\ HasRegion(content, Other(lastOp'.name))
        /\ Apart(content, lastOp'.name, Other(lastOp'.name), lastOp'.body))
       => Region(content', Other(lastOp'.name)) = Region(content, Other(lastOp'.name))
      ]_patchVars

\* C6 witness: a host with both regions, M2's after M1's, has had M1's body
\* replaced by a non-empty one and M2's region is as it was
C6_Witness ==
    /\ lastOp.fn = "replace_section_html"
    /\ lastOp.body # <<>>
    /\ HasRegion(host0, lastOp.name)
    /\ HasRegion(host0, Other(lastOp.name))
    /\ RegionSpan(host0, lastOp.name)[2] < RegionSpan(host0, Other(lastOp.name))[1]
    /\ Apart(host0, lastOp.name, Other(lastOp.name), lastOp.body)
    /\ content = replace_section_html(host0, lastOp.name, lastOp.body)
    /\ content # host0
    /\ Region(content, Other(lastOp.name)) = Region(host0, Other(lastOp.name))

\* C7: a patch that found the region keeps both markers where they were:
\* the text up to and including the start marker and the text from the end
\* marker on are unchanged, only the body between them differs.
C7_MarkersKept ==
    [][(/\ PatchStepBy({"replace_section_html", "update_page_file_with_code",
                        "replace_section_in_file"})
        /\ HasRegion(content, lastOp'.name)
        /\ ret' \in {"text", "True"})
       => LET r == RegionSpan(content, lastOp'.name)
              tail == Len(content) - r[2] + 1
          IN  /\ Len(content') >= r[1] + tail
              /\ SubSeq(content', 1, r[1]) = SubSeq(content, 1, r[1])
              /\ SubSeq(content', Len(content') - tail + 1, Len(content'))
                   = SubSeq(content, r[2], Len(content))
      ]_patchVars

\* C10: a replace on a host from which a marker of the name is missing
\* fails, and the failure is signalled to the caller.
C10_ReplaceSignalsMissingMarkers ==
    [][(/\ PatchStepBy({"replace_section_html", "update_page_file_with_code",
                        "replace_section_in_file"})
        /\ MarkerMissing(content, lastOp'.name))
       => ret' = "False"
      ]_patchVars

\* host is start_marker + old + end_marker for an old text without markers
IsSection(host, name) ==
    /\ Len(host) >= 2
    /\ host[1] = start_marker(name)
    /\ host[Len(host)] = end_marker(name)
    /\ \A i \in 2..(Len(host) - 1) : host[i] = "x"

\* C12: replace substitutes only the body and reproduces both markers around
\* the new body: for host = start_marker + old + end_marker, the patched
\* text is exactly start_marker + new + end_marker, nothing added to or
\* removed from the new body.
C12_ExactlyMarkersAndNewBody ==
    (/\ lastOp.fn \in {"replace_section_html", "update_page_file_with_code"}
     /\ ret \in {"text", "True"}
     /\ IsSection(host0, lastOp.name))
    => content = <<start_marker(lastOp.name)>> \o lastOp.body
                 \o <<end_marker(lastOp.name)>>

\* C11: replace matches only the first start/end pair of the name: the text
\* after the end marker of that pair, and with it any later occurrence of
\* the pair or of the old text, is left as it was.
C11_FirstPairOnly ==
    [][(/\ PatchStepBy({"replace_section_html", "replace_section_in_file"})
        /\ HasRegion(content, lastOp'.name)
        /\ ret' \in {"text", "True"})
       => LET r == RegionSpan(content, lastOp'.name)
              tail == Len(content) - r[2]
          IN  /\ Len(content') >= tail
              /\ SubSeq(content', Len(content') - tail + 1, Len(content'))
                   = SubSeq(content, r[2] + 1, Len(content))
      ]_patchVars

-----------------------------------------------------------------------------
(* Properties of the rate limiter *)

\* C2: rate-limiter spacing.  Any two consecutive passages of the gate of
\* one limiter, by whichever threads, are at least min_interval apart.
C2_Spacing ==
    \A i \in 1..(Len(starts) - 1) : starts[i + 1] - starts[i] >= min_interval

\* C2 witness: three threads have passed the gate, the later ones after
\* sleeping inside it
C2_Witness ==
    /\ Len(starts) >= 3
    /\ \E t \in Threads : calls[t] = 1 /\ wake_at[t] > current_time[t]
    /\ starts[2] - starts[1] = min_interval

\* C29: every call of wait_if_needed returns.  Each of the threads, however
\* many compete for the gate, completes every call it has to make: none
\* waits at the gate forever.
C29_EveryCallReturns ==
    \A t \in Threads :
        (calls[t] < MaxCalls) ~> (calls[t] = MaxCalls /\ lpc[t] = "idle")

\* C29 witness: every thread is through the gate, the last of them having
\* waited for the lock and then slept inside it
C29_Witness ==
    /\ \A t \in Threads : calls[t] = MaxCalls /\ lpc[t] = "idle"
    /\ lock = 0
    /\ Len(starts) = NumThreads * MaxCalls
    /\ \E t \in Threads : wake_at[t] = starts[Len(starts)] /\ wake_at[t] > current_time[t]

-----------------------------------------------------------------------------
(* Properties of the usage counters *)

\* C3: counter accuracy.  Once every one of the N jobs has added its amount
\* k, the counter reads exactly N * k, whatever the number of workers.
C3_CounterAccuracy ==
    finished = NumJobs => total_tokens = NumJobs * amount

-----------------------------------------------------------------------------
(* Properties of the retry loops *)

Ended == outcome \in {"value", "None", "raised"}

NonThrottling(err) == err = "other"

Classifying == {"retry_on_rate_limit", "modify_section_with_gemini", "process_acf_file"}

Exhausted ==
    /\ Ended
    /\ outcome # "value"
    /\ tries = max_attempts(loop)
    /\ Retries(loop, last_error)

Throttling(err) == err \in {"429", "quota", "rate limit"}

\* C21: an error is retried if and only if its message holds "429", "quota"
\* or "rate limit": while tries are left, the call goes on after a failed try
\* exactly when the error of that try is one of the three.
C21_RetriedIffThrottling ==
    (tries >= 1 /\ tries < max_attempts(loop) /\ last_error # "ok")
    => (outcome = "running" <=> Throttling(last_error))

\* C22 as stated: within one call the delays slept, suggested or computed,
\* never decrease from one attempt to the next.
C22_DelaysNonDecreasing ==
    \A i \in 1..Len(sleeps), j \in 1..Len(sleeps) :
        i < j => sleeps[i] <= sleeps[j]

\* C22 amended: within one call the backoff delays, those computed without a
\* server suggestion, never decrease from one attempt to a later one, and a
\* delay read from "retry in N" is N + 2 at most MaxHint + 2, whatever was
\* slept before it.
C22_BackoffNonDecreasing ==
    /\ \A i \in 1..Len(sleeps), j \in 1..Len(sleeps) :
          (i < j /\ ~suggested[i] /\ ~suggested[j]) => sleeps[i] <= sleeps[j]
    /\ \A i \in 1..Len(sleeps) :
          suggested[i] => sleeps[i] \in {h + retry_buffer : h \in 1..MaxHint}

\* C22 witness: process_acf_file has slept its four growing backoff delays
C22_Witness ==
    /\ loop = "process_acf_file"
    /\ sleeps = <<first_retry_delay, 2 * first_retry_delay,
                  4 * first_retry_delay, 8 * first_retry_delay>>
    /\ suggested = <<FALSE, FALSE, FALSE, FALSE>>

-----------------------------------------------------------------------------
(* Properties of the threads started one per page *)

\* C24: at no time do more jobs run at once than the configured maximum,
\* here the limit of min(len(cpt_data), 10) threads that
\* process_acf_files_with_threading computes.
C24_AtMostMaxConcurrent ==
    Cardinality(RunningThreads) <= max_threads(cpt_pages)

-----------------------------------------------------------------------------
(* Properties of the request loops *)

\* C26 as stated: a timeout of an external call is not retried: the try that
\* timed out is the last try of the call.
C26_TimeoutNotRetried ==
    \A i \in 1..Len(req_errors) :
        req_errors[i] = "Timeout" =>
            /\ i = Len(req_errors)
            /\ req_outcome \notin {"running", "value"}
            /\ Len(req_sleeps) < i

\* C26 amended: figma_api_get and download_single_image retry a timeout as
\* they retry every requests exception: a try that times out is followed by
\* a sleep of 2^attempt seconds and another try unless it is the third, and
\* at the third the function gives up (figma_api_get raises,
\* download_single_image returns None).
C26_TimeoutRetriedUpToThree ==
    \A i \in 1..Len(req_errors) :
        req_errors[i] = "Timeout" =>
            IF i < request_max_retries
            THEN /\ Len(req_sleeps) >= i
                 /\ req_sleeps[i] = Pow2(i - 1)
                 /\ (i = Len(req_errors) => req_outcome \in {"running", "value"})
            ELSE /\ req_outcome = RequestGiveUp(request_fn)
                 /\ Len(req_sleeps) = request_max_retries - 1

\* C26 witness: figma_api_get timed out at its first try, slept, and
\* succeeded at the second
C26_Witness ==
    /\ request_fn = "figma_api_get"
    /\ req_errors = <<"Timeout">>
    /\ req_sleeps = <<1>>
    /\ req_outcome = "value"

-----------------------------------------------------------------------------
(* Properties of the cache of shared sections *)

\* C27: the grouping into shared and unique sections is computed once, from
\* all (page, section) pairs, before any job is submitted, and no job
\* computes or changes it: whenever a job of the pool has started, the
\* grouping is there and is that of the whole data.
C27_GroupedBeforeJobs ==
    (\E j \in SectionJobs : section_pc[j] # "queued")
    => (has_cache /\ similar_sections_cache = FullCache)

\* C39: is_similar_section gives every caller in the pool the answer it
\* gives when called alone: a job is told that its section is shared exactly
\* when the section stands on more than one page, and none reads a cache
\* that is still being built
C39_AnswerAsSequential ==
    \A j \in SectionJobs :
        section_pc[j] = "done" =>
            is_similar[j] = (Len(FullCache[tasks[j].section]) > 1)

-----------------------------------------------------------------------------
(* Properties of the two limiters *)

\* the state of limiter l changes in this step
Touched(l) == limiters'[l] # limiters[l]

\* a thread enters, or leaves, wait_if_needed of limiter l in this step
StepsIn(l) ==
    \E t \in Threads :
        /\ gate_pc'[t] # gate_pc[t]
        /\ using[t] = l \/ using'[t] = l

\* a thread that is not in a gate can enter that of l
CanEnter(l) ==
    \A t \in Threads :
        (gate_pc[t] = "idle" /\ ~gate_done[t]) => ENABLED GateAcquire(t, l)

\* C28: distinct limiters are independent.  The state of a limiter changes
\* only in a step of a thread that is calling that very limiter, and a
\* limiter whose own lock is free lets a caller in, whoever holds or sleeps
\* in the other one.
C28_LimitersIndependent ==
    /\ [][\A l \in Limiters : Touched(l) => StepsIn(l)]_twoVars
    /\ [](\A l \in Limiters : limiters[l].lock = 0 => CanEnter(l))

\* C28 witness: a thread sleeps inside the Figma limiter, holding its lock,
\* while another thread is let through the Gemini limiter
C28_Witness ==
    \E t \in Threads, u \in Threads :
        /\ using[t] = "figma_rate_limiter"
        /\ gate_pc[t] = "sleeping"
        /\ gate_clock < gate_wake[t]
        /\ using[u] = "gemini_rate_limiter"
        /\ gate_pc[u] = "stamping"
        /\ limiters["gemini_rate_limiter"].lock = u

-----------------------------------------------------------------------------
(* Properties of the jobs patching one page file *)

\* C30: when the jobs that patch different sections of one page file have
\* all finished, the file holds every job's patch: it is the file the jobs
\* leave when they run one after the other.
C30_EveryPatchKept ==
    (\A j \in FileJobs : file_pc[j] = "done") =>
        page_file = PatchedAlone(file_script,
                            PatchedAlone(file_script, page_file0, "A", new_codes[1]),
                            "B", new_codes[2])

-----------------------------------------------------------------------------
(* Properties of the requests behind a limiter *)

\* C31: every request sent to a rate-limited service, the retries inside
\* figma_api_get and generate_code_with_gemini included, starts at least
\* min_interval after the request sent before it.
C31_RequestsSpaced ==
    \A i \in 1..(Len(request_starts) - 1) :
        request_starts[i + 1] - request_starts[i]
            >= MinIntervalOf(LimiterOf(svc_fn))

-----------------------------------------------------------------------------
(* Properties of the two locks of the menu generator *)

\* a thread that has something left to do
Unfinished(t) == lock_op[t] # "none" \/ ops_left[t] > 0

\* C40: token_lock and log_lock are always taken in the same order,
\* token_lock before log_lock and never the reverse, and the two generator
\* threads never deadlock: while a thread has something left to do, some
\* thread can take a step
C40_SameOrderNoDeadlock ==
    /\ \A t \in GeneratorThreads :
          locks_held[t] # <<"log_lock", "token_lock">>
    /\ (\E t \in GeneratorThreads : Unfinished(t)) => ENABLED LockNext

\* C40 witness: HeaderFooterThread holds token_lock and, within it,
\* log_lock, while ACFFieldThread waits for log_lock in a log_message
C40_Witness ==
    /\ locks_held["HeaderFooterThread"] = <<"token_lock", "log_lock">>
    /\ lock_op["ACFFieldThread"] = "log_message"
    /\ locks_held["ACFFieldThread"] = <<>>
    /\ ~ENABLED TakeLock("ACFFieldThread")

-----------------------------------------------------------------------------
(* Properties of the round trip through the pattern patcher *)

\* C37: for a host H that holds the markers of M and any body B,
\* extract_section_html(replace_section_html(H, M, B), M) is B without
\* its leading and trailing whitespace
C37_ReplaceThenExtract ==
    (/\ lastOp.fn = "replace_section_html"
     /\ HasRegion(host0, lastOp.name)
     /\ content = replace_section_html(host0, lastOp.name, lastOp.body))
    => extract_section_html(content, lastOp.name) = Strip(lastOp.body)

-----------------------------------------------------------------------------
(* Properties of the update of a page file *)

\* C36: whenever extract_section_code_from_page found the section in the
\* content of a page, update_page_file_with_code on the same content and the
\* same section name finds the markers too and succeeds
C36_ExtractedThenUpdated ==
    upd_pc = "done" => upd_ret = "True"

-----------------------------------------------------------------------------
(* Properties of the image download *)

\* C35: the download of one page image sends at most as many requests to
\* the Figma API as its retry limit, 3, however the loops are nested
C35_AtMostThreeApiRequests ==
    api_requests <= download_max_retries

-----------------------------------------------------------------------------
(* Properties of the processing delay *)

\* C34: between the starts of two consecutive model calls of a run lies at
\* least the processing delay, whichever workers make the calls and whether
\* or not the earlier call failed
C34_CallsSpacedByDelay ==
    \A i \in 1..(Len(call_starts) - 1) :
        call_starts[i + 1] - call_starts[i] >= processing_delay

-----------------------------------------------------------------------------
(* Properties of the ACF documentation *)

\* C33: the combined documentation of a section that stands on several
\* pages is generated at most once in a run, also when the jobs of its
\* pages run at the same time in the pool
C33_CombinedDocOnce ==
    \A s \in CacheSections : combined_docs[s] <= 1

-----------------------------------------------------------------------------
(* Properties of the decorated model calls *)

\* C32: when the model call inside a decorated function fails with a
\* throttling error, the call is tried again: a call that ended on a
\* throttling error has made MAX_RETRIES tries, and has not returned the
\* function's failure value after one.
C32_ThrottledCallRetried ==
    \A i \in 1..Len(deco_log) :
        Throttling(deco_log[i].error) =>
            /\ deco_log[i].tries = MAX_RETRIES
            /\ deco_log[i].result = "raised"

-----------------------------------------------------------------------------
(* Properties of the worker pools *)

\* C8: worker-pool failure isolation.  A job that raises never aborts the
\* result loop: the loop is never left by an exception, and once every job
\* has ended and the loop has stopped, every job's result has been collected.
C8_FailureIsolation ==
    /\ drain # "aborted"
    /\ ((\A j \in PoolJobs : job[j] \in {"ok", "None", "raised"}) /\ drain # "looping")
       => collected = PoolJobs

\* C23: when the result loop of a run is over, every submitted job has been
\* counted exactly once: the successes and the failures add up to the number
\* of jobs submitted.
C23_EveryJobCountedOnce ==
    drain \in {"done", "aborted"} => successful + failed = NumPoolJobs

-----------------------------------------------------------------------------
(* Properties of the run over the pages *)

\* C9: the orchestrator continues after a failed work item.  When the run
\* is over every page has been attempted, whichever page failed, the first
\* page included.
C9_EveryPageAttempted ==
    phase = "done" => \A p \in Pages : attempts[p] >= 1

\* main has submitted the pages to the pool (read once phase is past "first")
Submitted ==
    IF IS_COMMAN_HEADER_FOOTER
    THEN FirstPageOk(page_state[1]) /\ NumPages > 1
    ELSE TRUE

\* C25: the pool's shutdown drains the jobs in flight.  Once control is past
\* the `with ThreadPoolExecutor` block, in the sequential fallback or at the
\* summary, no job is running, and every job submitted has finished.
C25_ShutdownDrains ==
    phase \in {"fallback", "done"} =>
        /\ \A p \in Pages : page_state[p] # "running"
        /\ Submitted => \A p \in Pooled : page_state[p] \in {"ok", "None"}

\* C25 witness: all pages went to the pool, one of them failed there, and
\* control has reached the fallback with every job finished
C25_Witness ==
    /\ ~IS_COMMAN_HEADER_FOOTER
    /\ phase = "fallback"
    /\ failed_pages = {NumPages}
    /\ successful_pages = NumPages - 1
    /\ \A p \in Pages : attempts[p] = 1

\* C38: every page whose job failed in the pool is tried again in the
\* sequential fallback exactly once, and only after the pool has drained
\* all the page jobs: a page is never tried more than twice, a second try is
\* of a page that failed in the pool and happens with every pooled job
\* finished, and at the end every page that failed in the pool has had it
C38_FailedRetriedOnceAfterDrain ==
    /\ \A p \in Pages : attempts[p] <= 2
    /\ \A p \in Pages :
          attempts[p] = 2 =>
            /\ p \in failed_pages
            /\ phase \in {"fallback", "done"}
            /\ \A q \in Pooled : page_state[q] \in {"ok", "None"}
    /\ phase = "done" => \A p \in failed_pages : attempts[p] = 2

\* C38 witness: of the pages of the pool the first failed there alone, and
\* the run is over with that page tried a second time, with success
C38_Witness ==
    /\ ~IS_COMMAN_HEADER_FOOTER
    /\ phase = "done"
    /\ failed_pages = {1}
    /\ attempts = [p \in Pages |-> IF p = 1 THEN 2 ELSE 1]
    /\ page_state[1] = "ok"
    /\ successful_pages = NumPages

-----------------------------------------------------------------------------
(* Properties of the extraction *)

\* the text strictly between the first start marker of name and the end
\* marker that follows it
Between(text, name) ==
    LET r == RegionSpan(text, name)
    IN  SubSeq(text, r[1] + 1, r[2] - 1)

KeptNames == {section_refinements[i].name : i \in 1..Len(section_refinements)}

\* C13: when the markers of a name are not found, extract_section_html
\* yields None, and process_project skips that section and goes on: nothing
\* absent is kept for refinement, and every section looked at whose markers
\* hold some text is kept, whatever was absent before it.
C13_AbsentIsSkipped ==
    extractor = "extract_section_html" =>
        /\ \A i \in 1..Len(scanned) :
              ~HasRegion(scan_page, scanned[i].name) => scanned[i].html = None
        /\ \A i \in 1..Len(section_refinements) :
              /\ section_refinements[i].html # None
              /\ HasRegion(scan_page, section_refinements[i].name)
        /\ \A i \in 1..Len(scanned) :
              (/\ HasRegion(scan_page, scanned[i].name)
               /\ Strip(Between(scan_page, scanned[i].name)) # <<>>)
              => scanned[i].name \in KeptNames
        /\ scan = "done" => section_info_list = <<>>

\* C13 witness: the loop is over; the first section's markers were missing,
\* the second section was extracted and kept
C13_Witness ==
    /\ extractor = "extract_section_html"
    /\ scan = "done"
    /\ Len(scanned) = 2
    /\ ~HasRegion(scan_page, scanned[1].name)
    /\ scanned[1].html = None
    /\ Len(section_refinements) = 1
    /\ section_refinements[1].name = scanned[2].name
    /\ section_refinements[1].html = <<"x">>

\* C14: extract returns the text strictly between the first start marker
\* and the following end marker of the name, trimmed of leading and trailing
\* whitespace, the markers not included.
C14_ExtractTrimmedBetween ==
    \A i \in 1..Len(scanned) :
        HasRegion(scan_page, scanned[i].name)
        => scanned[i].html = Strip(Between(scan_page, scanned[i].name))

-----------------------------------------------------------------------------
(* Properties of the grouping *)

\* the places where name stands in the shared collection of d
SharedAt(d, name) ==
    {i \in 1..Len(d.similarSections) : d.similarSections[i].sectionName = name}

\* the places where name stands in the unique collection of d
UniqueAt(d, name) ==
    {ij \in (1..Len(d.uniqueSections)) \X (1..MaxPairs) :
        /\ ij[2] <= Len(d.uniqueSections[ij[1]].sectionNames)
        /\ d.uniqueSections[ij[1]].sectionNames[ij[2]] = name}

\* the item names of the input, as the result shows them; the sections that
\* the blog filter and the exclusion keywords take out are no items
ItemNames == {clean_section_name(pr[2]) : pr \in {q \in pairs : q[2] # "Blog"}}

\* C15: in the grouping result every item name of the input is a member of
\* exactly one of the two collections: none is in both, none appears twice,
\* none is omitted.
C15_ExactlyOneCollection ==
    gstage = "fetched" =>
        \A name \in ItemNames :
            Cardinality(SharedAt(cpt_data, name))
              + Cardinality(UniqueAt(cpt_data, name)) = 1

\* the containers of an item: the pages on which the section stands
ContainerSet(name) == {p \in GroupPages : <<p, name>> \in Matched(gscript, pairs)}

Range(f) == {f[i] : i \in 1..Len(f)}

C17_SameResultAgain ==
    (gstage = "fetched" /\ run = 2) => cpt_data = first_cpt_data

\* C18: the containers listed in each shared entry of the grouping result
\* are in sorted order.
C18_SharedPagesSorted ==
    gstage = "fetched" =>
        \A i \in 1..Len(cpt_data.similarSections) :
            LET pgs == cpt_data.similarSections[i].pages
            IN  \A j, k \in 1..Len(pgs) : j < k => pgs[j] < pgs[k]

-----------------------------------------------------------------------------
(* Properties of the external calls *)

\* C19: the mutex is held for the critical section only and never while
\* the external call (HTTP request, model invocation) is in progress: a
\* thread whose external call is running does not hold it.
C19_LockNotHeldDuringCall ==
    \A t \in Threads : cpc[t] = "calling" => api_lock # t

=============================================================================
